---- MODULE Spec2Model ----
(***************************************************************************)
(* A model of ditag (Dicom_Archive_Query): the catalog of database.py, the *)
(* concurrent archive scan of indexer.index_archive and the sequential     *)
(* remote indexer of cli.project_index / indexer.index_pacs.               *)
(*                                                                         *)
(* SpecCatalog : worker threads calling the two insert functions.          *)
(* SpecScan    : the archive scan, several worker threads, one catalog.    *)
(* SpecPacs    : one `project index` command against a remote endpoint.    *)
(* SpecDownload: one `project download` command: the orchestrator, the     *)
(*               receiver thread and the pool of retrieve tasks.           *)
(* SpecStatus  : the status classification of the indexer and the task.    *)
(* SpecQuery   : one `query` command over a catalog (querier.query_db).    *)
(* SpecSend    : one `send` command (sender.send_dicoms).                  *)
(***************************************************************************)
EXTENDS Integers, Sequences, FiniteSets, TLC

\* ------------------------------------------------------------------ bounds
\* The largest --threads value a scan is started with.
MaxThreads == 2
\* The number of index commands run one after the other on the same catalog.
MaxScans == 2
\* The number of insert calls the threads of SpecCatalog issue in all.
MaxCalls == 3

VARIABLES
    \* the catalog (one sqlite file)
    tablesExist,    \* create_tables has run on it
    series,         \* the rows of table series
    instances,      \* the rows of table instances
    \* the process
    lockHolders,    \* the threads inside `with db_lock`
    call,           \* per thread: the insert call it is in
    ncalls,         \* SpecCatalog: the calls issued so far
    \* the archive scan
    archive,        \* the directories of the archive, each a list of files
    scanning,       \* index_archive is between submit and "Indexing complete"
    append,         \* its --append flag
    threads,        \* its --threads value
    queue,          \* the executor's work queue: directories not yet taken
    task,           \* per thread: the directory and the file it is at
    printed,        \* the files process_file returned an error string for
    advanced,       \* the files the progress bar was advanced for
    scansDone,      \* the scans completed
    prevContent,    \* the catalog's content when the previous scan completed
    \* the remote indexer (`project index`)
    targetFile,     \* the lines of the target list file
    remote,         \* what the remote endpoint answers to each query
    startAtLine,    \* --start-at-line, <<>> when not given, <<n>> when given
    startAtAccession, \* --start-at-accession, <<>> or <<a>>
    pacsPc,         \* where the command is
    projectCreated, \* the project directory and its yml file exist
    accessions,     \* accession_numbers, after the resume options
    pos,            \* the position of the loop in accession_numbers
    studyUid,       \* study_uid of the current accession
    netlog,         \* what was sent to the remote endpoint, in order
    \* the retrieval batch (`project download`)
    dlPc,           \* where download_project is
    dlThreads,      \* --threads, the size of the worker pool
    selection,      \* --input: <<>> when not given, <<file>> when given
    dlExc,          \* the exception download_project ended with, "" for none
    outputDir,      \* the output directory was created
    scp,            \* the receiver thread (run_scp)
    stopEvent,      \* stop_event is set
    futures,        \* the retrieve tasks submitted, in submission order
    waitIdx,        \* the future whose result() the orchestrator is at
    \* the receiver's store handler (handle_store)
    storeLog,       \* the objects pushed to the receiver and the status returned
    outFiles,       \* the files written under the output directory
    \* the classification of a protocol status code
    statusCode,     \* the code of a response
    indexerSays,    \* what index_pacs takes it for, "" before it has
    retrieveSays,   \* what download_series takes it for, "" before it has
    \* the search (`query`)
    qArgs,          \* the options of the command
    qResult,        \* <<>> before the search, then its rows or its exception
    \* the transmission (`send`)
    sendPc,         \* where send_dicoms is
    sendInput,      \* the selection: where it is read from and its rows
    sendExc,        \* the exception send_dicoms ended with, "" for none
    seriesUids,     \* series_uids
    sopClasses,     \* sop_classes
    unreadable,     \* the files of the catalog that dcmread cannot read
    si,             \* the position of the outer loop in series_uids
    filePaths,      \* file_paths of the series at si
    fi,             \* the position of the inner loop in file_paths
    sendLog         \* what was sent to the destination and printed, in order

catalogVars == <<tablesExist, series, instances>>
callVars == <<lockHolders, call, ncalls>>
scanVars == <<archive, scanning, append, threads, queue, task, printed, advanced,
              scansDone, prevContent>>
pacsVars == <<targetFile, remote, startAtLine, startAtAccession, pacsPc, projectCreated,
              accessions, pos, studyUid, netlog>>
dlVars == <<dlPc, dlThreads, selection, dlExc, outputDir, scp, stopEvent, futures, waitIdx>>
rxVars == <<storeLog, outFiles>>
statusVars == <<statusCode, indexerSays, retrieveSays>>
queryVars == <<qArgs, qResult>>
sendVars == <<sendPc, sendInput, sendExc, seriesUids, sopClasses, unreadable, si, filePaths,
              fi, sendLog>>
cmdVars == <<rxVars, statusVars, queryVars, sendVars>>
vars == <<catalogVars, callVars, scanVars, pacsVars, dlVars, cmdVars>>

Workers == 1..MaxThreads

\* Python's None (stored by sqlite3 as NULL).
None == "<None>"

\* ---------------------------------------------------------------- catalog
\* database.create_tables: the columns of a series row besides its id.
SeriesColumns ==
    {"StudyInstanceUID", "SeriesInstanceUID", "StudyDescription", "SeriesDescription",
     "PatientName", "PatientID", "StudyDate", "archive_path"}

\* dict.get(key, ''): the value under key, '' when the key is absent.
MdGet(md, key) == IF key \in DOMAIN md THEN md[key] ELSE ""

\* cursor.fetchone() of SELECT id FROM series WHERE SeriesInstanceUID = ?
\* 0 stands for "no row" (ids start at 1).
SelectSeriesId(rows, uid) ==
    IF \E r \in rows : r.SeriesInstanceUID = uid
    THEN (CHOOSE r \in rows : r.SeriesInstanceUID = uid).id
    ELSE 0

\* AUTOINCREMENT: one more than the largest id in use (rows are never deleted).
NextId(rows) ==
    IF rows = {} THEN 1
    ELSE (CHOOSE m \in {r.id : r \in rows} : \A r \in rows : r.id <= m) + 1

\* The VALUES tuple of INSERT INTO series, under a fresh id.
SeriesRow(rows, md) ==
    [id |-> NextId(rows),
     StudyInstanceUID |-> MdGet(md, "StudyInstanceUID"),
     SeriesInstanceUID |-> MdGet(md, "SeriesInstanceUID"),
     StudyDescription |-> MdGet(md, "StudyDescription"),
     SeriesDescription |-> MdGet(md, "SeriesDescription"),
     PatientName |-> MdGet(md, "PatientName"),
     PatientID |-> MdGet(md, "PatientID"),
     StudyDate |-> MdGet(md, "StudyDate"),
     archive_path |-> MdGet(md, "archive_path")]

\* SeriesInstanceUID TEXT UNIQUE: the INSERT raises IntegrityError when a row
\* with this uid is there.
UniqueViolation(rows, md) ==
    \E r \in rows : r.SeriesInstanceUID = MdGet(md, "SeriesInstanceUID")

\* A plausible bug: INSERT OR REPLACE, the new values take the row over.
InsertSeries_Replace(rows, md) ==
    {r \in rows : r.SeriesInstanceUID # MdGet(md, "SeriesInstanceUID")}
        \cup {SeriesRow(rows, md)}

\* INSERT INTO series (...) VALUES (...), when it does not raise.
InsertSeries(rows, md) == rows \cup {SeriesRow(rows, md)}

\* A plausible bug: the lookup never finds the row, every call inserts.
UpsertSeries_Overwrite(rows, md) == InsertSeries_Replace(rows, md)

\* The lookup and the insert of insert_dicom_metadata / insert_series_metadata
\* run without interruption: get-or-create by SeriesInstanceUID.
UpsertSeries(rows, md) ==
    IF SelectSeriesId(rows, md["SeriesInstanceUID"]) # 0
    THEN rows
    ELSE InsertSeries(rows, md)

\* The VALUES tuple of INSERT INTO instances, under a fresh id.
\* A plausible bug: the row refers to another id than the series looked up or
\* inserted (cursor.lastrowid read after another statement).
InstanceRow_WrongSeries(insts, sid, sop, path) ==
    [id |-> NextId(insts), series_id |-> sid + 1, SOPInstanceUID |-> sop, file_path |-> path]

\* The VALUES tuple of INSERT INTO instances, under a fresh id.
InstanceRow(insts, sid, sop, path) ==
    [id |-> NextId(insts), series_id |-> sid, SOPInstanceUID |-> sop, file_path |-> path]

\* A plausible bug: INSERT OR REPLACE INTO instances.
InsertInstance_Replace(insts, sid, sop, path) ==
    {i \in insts : i.SOPInstanceUID # sop} \cup {InstanceRow(insts, sid, sop, path)}

\* A plausible bug: no UNIQUE on SOPInstanceUID, every insert adds a row.
InsertInstance_Duplicate(insts, sid, sop, path) ==
    insts \cup {InstanceRow(insts, sid, sop, path)}

\* INSERT OR IGNORE INTO instances: SOPInstanceUID TEXT UNIQUE, a duplicate is
\* dropped without an error.
InsertInstance(insts, sid, sop, path) ==
    IF \E i \in insts : i.SOPInstanceUID = sop
    THEN insts
    ELSE insts \cup {InstanceRow(insts, sid, sop, path)}

\* A record or dict without one of its keys.
Without(ds, tag) == [t \in DOMAIN ds \ {tag} |-> ds[t]]

\* The series rows without their ids.
SeriesContent(rows) == {Without(r, "id") : r \in rows}

\* The instance rows, each with the SeriesInstanceUID of the series it points to.
InstanceContent(rows, insts) ==
    {[SOPInstanceUID |-> i.SOPInstanceUID, file_path |-> i.file_path,
      series |-> {r.SeriesInstanceUID : r \in {x \in rows : x.id = i.series_id}}] :
        i \in insts}

\* What a catalog holds: its rows without their ids, and the row counts.
ContentOf(tables, rows, insts) ==
    [tables |-> tables, series |-> SeriesContent(rows),
     instances |-> InstanceContent(rows, insts),
     nseries |-> Cardinality(rows), ninstances |-> Cardinality(insts)]

\* ---------------------------------------------------------------- archive
\* The tags a file of the archive carries besides the three that vary.
BaseTags ==
    [StudyInstanceUID |-> "T1", StudyDescription |-> "CT", PatientName |-> "DOE^J",
     PatientID |-> "P1", StudyDate |-> "20230115"]

SeriesUIDs == {"S1", "S2"}
SOPUIDs == {"I1", "I2"}
Descriptions == {"d1", "d2"}

FullDs(s, i, d) ==
    BaseTags @@ [SeriesInstanceUID |-> s, SOPInstanceUID |-> i, SeriesDescription |-> d]

\* What pydicom.dcmread does with a file: "dicom" returns the dataset ds,
\* "nondicom" raises InvalidDicomError, "unreadable" raises another exception.
ValidFiles ==
    {[kind |-> "dicom", ds |-> FullDs(s, i, d)] :
        s \in SeriesUIDs, i \in SOPUIDs, d \in Descriptions}

InvalidFiles ==
    {[kind |-> "nondicom", ds |-> FullDs("S1", "I1", "d1")],
     [kind |-> "unreadable", ds |-> FullDs("S1", "I1", "d1")],
     [kind |-> "dicom", ds |-> Without(FullDs("S1", "I1", "d1"), "SeriesInstanceUID")],
     [kind |-> "dicom", ds |-> Without(FullDs("S1", "I1", "d1"), "SOPInstanceUID")]}

Files == ValidFiles \cup InvalidFiles

\* The archives scanned: two directories with files, the first with two files
\* and the second with one; os.walk lists them in this order. The files of the
\* first directory agree on the description, the file of the second may differ.
Archives ==
    {<<<<a, b>>, <<c>>>> :
        a \in {f \in Files : f.ds["SeriesDescription"] = "d1"},
        b \in {f \in Files : f.ds["SeriesDescription"] = "d1"},
        c \in Files}

ArchivePath == "/archive"

\* ------------------------------------------------------- the insert calls
\* The metadata dicts SpecCatalog's threads call with.
\* (a file of directory a says d1, a file of directory b says d2)
DicomMetadata ==
    {FullDs(s, i, v[1]) @@ [archive_path |-> ArchivePath, file_path |-> v[2]] :
        s \in SeriesUIDs, i \in SOPUIDs, v \in {<<"d1", "/archive/a">>, <<"d2", "/archive/b">>}}

SeriesMetadata ==
    {Without(FullDs(s, "I1", d), "SOPInstanceUID") @@ [archive_path |-> "pacs://PACS"] :
        s \in SeriesUIDs, d \in Descriptions}

NoCall == [pc |-> "idle", fn |-> "", md |-> <<>>, sid |-> 0, exc |-> ""]

Returned(c, exc) == [c EXCEPT !.pc = "returned", !.exc = exc]

\* A plausible bug: no lock around the lookup and the insert.
LockFree_NoLock(holders) == TRUE

\* threading.Lock: `with db_lock` goes on when no thread holds it.
LockFree(holders) == holders = {}

\* A plausible bug: the row is written whether or not the lookup found one.
SeriesAfterLookup_Clobber(rows, sid, md) == InsertSeries_Replace(rows, md)

\* `if result: series_id = result[0]  else: INSERT INTO series`
SeriesAfterLookup(rows, sid, md) == IF sid # 0 THEN rows ELSE InsertSeries(rows, md)

\* A plausible bug: db_lock.acquire() and release() without try/finally, the
\* lock stays taken when the SELECT raises.
AcquireSelect_LeakOnRaise(w) ==
    /\ call[w].pc = "waiting"
    /\ LockFree(lockHolders)
    /\ lockHolders' = lockHolders \cup {w}
    /\ IF tablesExist
       THEN call' = [call EXCEPT ![w].pc = "selected",
                       ![w].sid = SelectSeriesId(series, call[w].md["SeriesInstanceUID"])]
       ELSE call' = [call EXCEPT ![w] = Returned(@, "OperationalError")]
    /\ UNCHANGED <<catalogVars, ncalls, scanVars, pacsVars, dlVars, cmdVars>>

\* `with db_lock:` and the SELECT of either insert function. Without the tables
\* the SELECT raises OperationalError and the `with` releases the lock.
AcquireSelect(w) ==
    /\ call[w].pc = "waiting"
    /\ LockFree(lockHolders)
    /\ IF tablesExist
       THEN /\ lockHolders' = lockHolders \cup {w}
            /\ call' = [call EXCEPT ![w].pc = "selected",
                          ![w].sid = SelectSeriesId(series, call[w].md["SeriesInstanceUID"])]
       ELSE /\ lockHolders' = lockHolders
            /\ call' = [call EXCEPT ![w] = Returned(@, "OperationalError")]
    /\ UNCHANGED <<catalogVars, ncalls, scanVars, pacsVars, dlVars, cmdVars>>

\* The series branch. insert_series_metadata commits and leaves the lock here;
\* insert_dicom_metadata goes on to the instance with series_id set.
WriteSeries(w) ==
    LET c == call[w] IN
    /\ c.pc = "selected"
    /\ IF c.sid = 0 /\ UniqueViolation(series, c.md)
       THEN /\ series' = series
            /\ lockHolders' = lockHolders \ {w}
            /\ call' = [call EXCEPT ![w] = Returned(@, "IntegrityError")]
       ELSE /\ series' = SeriesAfterLookup(series, c.sid, c.md)
            /\ IF c.fn = "insert_dicom_metadata"
               THEN /\ call' = [call EXCEPT ![w].pc = "instance",
                                 ![w].sid = IF c.sid # 0 THEN c.sid ELSE NextId(series)]
                    /\ lockHolders' = lockHolders
               ELSE /\ call' = [call EXCEPT ![w] = Returned(@, "")]
                    /\ lockHolders' = lockHolders \ {w}
    /\ UNCHANGED <<tablesExist, instances, ncalls, scanVars, pacsVars, dlVars, cmdVars>>

\* INSERT OR IGNORE INTO instances, conn.commit() and the end of the `with`.
WriteInstance(w) ==
    LET c == call[w] IN
    /\ c.pc = "instance"
    /\ instances' = InsertInstance(instances, c.sid, c.md["SOPInstanceUID"], c.md["file_path"])
    /\ lockHolders' = lockHolders \ {w}
    /\ call' = [call EXCEPT ![w] = Returned(@, "")]
    /\ UNCHANGED <<tablesExist, series, ncalls, scanVars, pacsVars, dlVars, cmdVars>>

\* --------------------------------------------------------- SpecCatalog
\* A thread calls insert_dicom_metadata(conn, md) on its own connection.
CallInsertDicom(w) ==
    /\ call[w].pc = "idle"
    /\ ncalls < MaxCalls
    /\ \E md \in DicomMetadata :
         call' = [call EXCEPT ![w] = [NoCall EXCEPT !.pc = "waiting",
                                      !.fn = "insert_dicom_metadata", !.md = md]]
    /\ ncalls' = ncalls + 1
    /\ UNCHANGED <<catalogVars, lockHolders, scanVars, pacsVars, dlVars, cmdVars>>

\* A thread calls insert_series_metadata(conn, md) on its own connection.
CallInsertSeries(w) ==
    /\ call[w].pc = "idle"
    /\ ncalls < MaxCalls
    /\ \E md \in SeriesMetadata :
         call' = [call EXCEPT ![w] = [NoCall EXCEPT !.pc = "waiting",
                                      !.fn = "insert_series_metadata", !.md = md]]
    /\ ncalls' = ncalls + 1
    /\ UNCHANGED <<catalogVars, lockHolders, scanVars, pacsVars, dlVars, cmdVars>>

\* The call is over (it returned or raised) and the thread is free again.
CallReturns(w) ==
    /\ call[w].pc = "returned"
    /\ call' = [call EXCEPT ![w] = NoCall]
    /\ UNCHANGED <<catalogVars, lockHolders, ncalls, scanVars, pacsVars, dlVars, cmdVars>>

\* database.create_tables(conn): CREATE TABLE IF NOT EXISTS, twice, and a commit.
CreateTables ==
    /\ ~tablesExist
    /\ tablesExist' = TRUE
    /\ UNCHANGED <<series, instances, callVars, scanVars, pacsVars, dlVars, cmdVars>>

ScanIdle ==
    /\ archive = <<>>
    /\ scanning = FALSE
    /\ append = FALSE
    /\ threads = 1
    /\ queue = <<>>
    /\ task = [w \in Workers |-> [dir |-> 0, idx |-> 0]]
    /\ printed = {}
    /\ advanced = {}
    /\ scansDone = 0
    /\ prevContent = ContentOf(FALSE, {}, {})

\* Nothing was pushed to the receiver.
RxIdle ==
    /\ storeLog = <<>>
    /\ outFiles = {}

\* No status code is being classified.
StatusIdle ==
    /\ statusCode = 0
    /\ indexerSays = ""
    /\ retrieveSays = ""

\* No `query` command is run.
QueryIdle ==
    /\ qArgs = <<>>
    /\ qResult = <<>>

\* No `send` command is run.
SendIdle ==
    /\ sendPc = "cli"
    /\ sendInput = <<>>
    /\ sendExc = ""
    /\ seriesUids = <<>>
    /\ sopClasses = {}
    /\ unreadable = {}
    /\ si = 0
    /\ filePaths = <<>>
    /\ fi = 0
    /\ sendLog = <<>>

\* The commands modelled further down are not running.
RestIdle ==
    /\ RxIdle
    /\ StatusIdle
    /\ QueryIdle
    /\ SendIdle

\* `project download` is not running.
DownloadIdle ==
    /\ dlPc = "cli"
    /\ dlThreads = 1
    /\ selection = <<>>
    /\ dlExc = ""
    /\ outputDir = FALSE
    /\ scp = "none"
    /\ stopEvent = FALSE
    /\ futures = <<>>
    /\ waitIdx = 0

\* No `project index` command is run.
PacsIdle ==
    /\ targetFile = <<>>
    /\ remote = <<>>
    /\ startAtLine = <<>>
    /\ startAtAccession = <<>>
    /\ pacsPc = "cli"
    /\ projectCreated = FALSE
    /\ accessions = <<>>
    /\ pos = 0
    /\ studyUid = None
    /\ netlog = <<>>

EmptyCatalog ==
    /\ series = {}
    /\ instances = {}

NoCalls ==
    /\ lockHolders = {}
    /\ call = [w \in Workers |-> NoCall]
    /\ ncalls = 0

InitCatalog ==
    /\ tablesExist \in BOOLEAN
    /\ EmptyCatalog
    /\ NoCalls
    /\ ScanIdle
    /\ PacsIdle
    /\ DownloadIdle
    /\ RestIdle

NextCatalog ==
    \/ CreateTables
    \/ \E w \in Workers : CallInsertDicom(w)
    \/ \E w \in Workers : CallInsertSeries(w)
    \/ \E w \in Workers : AcquireSelect(w)
    \/ \E w \in Workers : WriteSeries(w)
    \/ \E w \in Workers : WriteInstance(w)
    \/ \E w \in Workers : CallReturns(w)

SpecCatalog == InitCatalog /\ [][NextCatalog]_vars

\* One row per SeriesInstanceUID.
SeriesUnique ==
    \A r1 \in series, r2 \in series :
        r1.SeriesInstanceUID = r2.SeriesInstanceUID => r1 = r2

\* One row per SOPInstanceUID.
InstancesUnique ==
    \A i1 \in instances, i2 \in instances :
        i1.SOPInstanceUID = i2.SOPInstanceUID => i1 = i2

\* C1: whatever the interleaving of the threads' insert calls, the catalog
\* holds at most one series row per SeriesInstanceUID and no call raises the
\* IntegrityError of a row inserted by another thread between its lookup and
\* its insert.
C1_ConcurrentGetOrCreate ==
    /\ SeriesUnique
    /\ \A w \in Workers : call[w].exc # "IntegrityError"

\* C1's case: a thread has looked a uid up, found no row and not yet inserted,
\* while another thread's call for the same uid is under way.
C1_Witness ==
    \E w1 \in Workers, w2 \in Workers :
        /\ w1 # w2
        /\ call[w1].pc = "selected"
        /\ call[w1].sid = 0
        /\ call[w2].pc = "waiting"
        /\ call[w2].md["SeriesInstanceUID"] = call[w1].md["SeriesInstanceUID"]

\* C2: first writer wins: no step of either insert function changes or
\* removes a series row that is there, whatever the values it is called with.
C2_FirstWriterWins == [][\A r \in series : r \in series']_vars

\* C2's case: an insert call went through its series branch without raising,
\* for a uid whose row holds other values than the call's.
C2_Witness ==
    \E w \in Workers, r \in series :
        /\ call[w].pc \in {"instance", "returned"}
        /\ call[w].exc = ""
        /\ r.SeriesInstanceUID = call[w].md["SeriesInstanceUID"]
        /\ r.SeriesDescription # call[w].md["SeriesDescription"]
        /\ r.archive_path # call[w].md["archive_path"]

\* C3: the instance insert of a SOPInstanceUID that is in the catalog leaves
\* the instances table as it is (one row for the uid, its series and file_path
\* kept) and returns without raising.
C3_DuplicateInstanceIgnored ==
    [][\A w \in Workers :
          (/\ call[w].pc = "instance"
           /\ call'[w].pc = "returned"
           /\ \E i \in instances : i.SOPInstanceUID = call[w].md["SOPInstanceUID"])
          => (/\ instances' = instances
              /\ InstancesUnique'
              /\ call'[w].exc = "")]_vars

\* C3's case: insert_dicom_metadata returned for a SOPInstanceUID whose row
\* belongs to another series and names another file than the call did.
C3_Witness ==
    \E w \in Workers, i \in instances :
        /\ call[w].pc = "returned"
        /\ call[w].fn = "insert_dicom_metadata"
        /\ call[w].exc = ""
        /\ i.SOPInstanceUID = call[w].md["SOPInstanceUID"]
        /\ i.file_path # call[w].md["file_path"]
        /\ i.series_id # call[w].sid

\* ------------------------------------------------------------ SpecScan
\* os.path.join(subdirectory_path, f): the path of file i of directory d.
FilePath(d, i) ==
    <<<<"/archive/a/1", "/archive/a/2", "/archive/a/3">>,
      <<"/archive/b/1", "/archive/b/2", "/archive/b/3">>>>[d][i]

\* ds.get(tag): None when the dataset lacks the tag.
DsGet(ds, tag) == IF tag \in DOMAIN ds THEN ds[tag] ELSE None

\* The metadata dict process_file builds from the dataset of a file.
FileMetadata(ds, path) ==
    [StudyInstanceUID |-> DsGet(ds, "StudyInstanceUID"),
     SeriesInstanceUID |-> DsGet(ds, "SeriesInstanceUID"),
     SOPInstanceUID |-> DsGet(ds, "SOPInstanceUID"),
     StudyDescription |-> DsGet(ds, "StudyDescription"),
     SeriesDescription |-> DsGet(ds, "SeriesDescription"),
     PatientName |-> IF "PatientName" \in DOMAIN ds THEN ds["PatientName"] ELSE "",
     PatientID |-> DsGet(ds, "PatientID"),
     StudyDate |-> DsGet(ds, "StudyDate"),
     archive_path |-> ArchivePath,
     file_path |-> path]

\* process_file gets as far as insert_dicom_metadata: dcmread returned a
\* dataset and it carries both identifiers.
Indexable(f) ==
    /\ f.kind = "dicom"
    /\ "SeriesInstanceUID" \in DOMAIN f.ds
    /\ "SOPInstanceUID" \in DOMAIN f.ds

\* The files of the archive, as (directory, position) pairs.
AllFiles == UNION {{<<d, i>> : i \in 1..Len(archive[d])} : d \in DOMAIN archive}

NoTask == [dir |-> 0, idx |-> 0]

Content == ContentOf(tablesExist, series, instances)

\* index_archive up to the submission of the tasks: the tables are created
\* unless --append, one task per directory is queued, in os.walk order.
StartScan(ap, th) ==
    /\ ~scanning
    /\ scansDone < MaxScans
    /\ tablesExist' = (tablesExist \/ ~ap)
    /\ scanning' = TRUE
    /\ append' = ap
    /\ threads' = th
    /\ queue' = [d \in 1..Len(archive) |-> d]
    /\ printed' = {}
    /\ advanced' = {}
    /\ UNCHANGED <<series, instances, callVars, archive, task, scansDone, prevContent, pacsVars, dlVars, cmdVars>>

\* index_archive when the user answers no to "Do you want to proceed".
CancelScan(ap) ==
    /\ ~scanning
    /\ scansDone < MaxScans
    /\ ~tablesExist
    /\ ~ap
    /\ tablesExist' = TRUE
    /\ UNCHANGED <<series, instances, callVars, scanVars, pacsVars, dlVars, cmdVars>>

\* A free thread of the pool takes the next directory: process_subdirectory.
TakeTask(w) ==
    /\ scanning
    /\ w <= threads
    /\ task[w] = NoTask
    /\ queue # <<>>
    /\ task' = [task EXCEPT ![w] = [dir |-> Head(queue), idx |-> 1]]
    /\ queue' = Tail(queue)
    /\ UNCHANGED <<catalogVars, callVars, archive, scanning, append, threads, printed,
                   advanced, scansDone, prevContent, pacsVars, dlVars, cmdVars>>

\* The loop of process_subdirectory moves to the next file, or the task ends.
NextFile(t) ==
    IF t.idx < Len(archive[t.dir]) THEN [t EXCEPT !.idx = t.idx + 1] ELSE NoTask

\* process_file up to the call of insert_dicom_metadata; a file that does not
\* parse or lacks an identifier returns its message at once.
ReadFile(w) ==
    LET t == task[w]
        f == archive[t.dir][t.idx]
    IN  /\ t # NoTask
        /\ call[w].pc = "idle"
        /\ IF Indexable(f)
           THEN /\ call' = [call EXCEPT ![w] =
                              [NoCall EXCEPT !.pc = "waiting", !.fn = "insert_dicom_metadata",
                                             !.md = FileMetadata(f.ds, FilePath(t.dir, t.idx))]]
                /\ UNCHANGED <<task, printed, advanced, pacsVars, dlVars, cmdVars>>
           ELSE /\ printed' = printed \cup {<<t.dir, t.idx>>}
                /\ advanced' = advanced \cup {<<t.dir, t.idx>>}
                /\ task' = [task EXCEPT ![w] = NextFile(t)]
                /\ call' = call
        /\ UNCHANGED <<catalogVars, lockHolders, ncalls, archive, scanning, append, threads,
                       queue, scansDone, prevContent, pacsVars, dlVars, cmdVars>>

\* process_file after insert_dicom_metadata: None when it returned, the
\* "Could not read" message when it raised; the progress bar advances.
FileDone(w) ==
    LET t == task[w] IN
    /\ t # NoTask
    /\ call[w].pc = "returned"
    /\ printed' = IF call[w].exc # "" THEN printed \cup {<<t.dir, t.idx>>} ELSE printed
    /\ advanced' = advanced \cup {<<t.dir, t.idx>>}
    /\ task' = [task EXCEPT ![w] = NextFile(t)]
    /\ call' = [call EXCEPT ![w] = NoCall]
    /\ UNCHANGED <<catalogVars, lockHolders, ncalls, archive, scanning, append, threads,
                   queue, scansDone, prevContent, pacsVars, dlVars, cmdVars>>

\* Every future has its result: "Indexing complete".
FinishScan ==
    /\ scanning
    /\ queue = <<>>
    /\ \A w \in Workers : task[w] = NoTask
    /\ scanning' = FALSE
    /\ scansDone' = scansDone + 1
    /\ prevContent' = Content
    /\ UNCHANGED <<catalogVars, callVars, archive, append, threads, queue, task, printed,
                   advanced, pacsVars, dlVars, cmdVars>>

InitScan ==
    /\ tablesExist = FALSE
    /\ EmptyCatalog
    /\ NoCalls
    /\ archive \in Archives
    /\ scanning = FALSE
    /\ append = FALSE
    /\ threads = 1
    /\ queue = <<>>
    /\ task = [w \in Workers |-> NoTask]
    /\ printed = {}
    /\ advanced = {}
    /\ scansDone = 0
    /\ prevContent = ContentOf(FALSE, {}, {})
    /\ PacsIdle
    /\ DownloadIdle
    /\ RestIdle

NextScan ==
    \/ \E ap \in BOOLEAN, th \in 1..MaxThreads : StartScan(ap, th)
    \/ \E ap \in BOOLEAN : CancelScan(ap)
    \/ \E w \in Workers : TakeTask(w)
    \/ \E w \in Workers : ReadFile(w)
    \/ \E w \in Workers : AcquireSelect(w)
    \/ \E w \in Workers : WriteSeries(w)
    \/ \E w \in Workers : WriteInstance(w)
    \/ \E w \in Workers : FileDone(w)
    \/ FinishScan

SpecScan == InitScan /\ [][NextScan]_vars

\* insert_dicom_metadata from `with db_lock` to the commit, as one step.
InsertDicom(cat, md) ==
    LET rows == UpsertSeries(cat.series, md) IN
    [series |-> rows,
     instances |-> InsertInstance(cat.instances, SelectSeriesId(rows, md["SeriesInstanceUID"]),
                                  md["SOPInstanceUID"], md["file_path"])]

\* process_file on file i of directory d.
ProcessFile(cat, d, i) ==
    IF Indexable(archive[d][i])
    THEN InsertDicom(cat, FileMetadata(archive[d][i].ds, FilePath(d, i)))
    ELSE cat

\* process_subdirectory: the files of directory d from position i on, in order.
RECURSIVE ProcessSubdirectory(_, _, _)
ProcessSubdirectory(cat, d, i) ==
    IF i > Len(archive[d]) THEN cat
    ELSE ProcessSubdirectory(ProcessFile(cat, d, i), d, i + 1)

\* index_archive with threads=1 on a catalog with its tables: the single
\* worker runs the tasks in submission order, directory after directory.
RECURSIVE IndexArchiveSequential(_, _)
IndexArchiveSequential(cat, d) ==
    IF d > Len(archive) THEN cat
    ELSE IndexArchiveSequential(ProcessSubdirectory(cat, d, 1), d + 1)

SequentialContent ==
    LET cat == IndexArchiveSequential([series |-> {}, instances |-> {}], 1) IN
    ContentOf(TRUE, cat.series, cat.instances)

\* C4: a completed scan of the archive (into a catalog with its tables) leaves
\* the rows the one-worker scan (directories and files in listing order)
\* produces, whatever the number of workers and the order in which they ran.
C4_OrderIndependent ==
    (scansDone >= 1 /\ prevContent.tables) => prevContent = SequentialContent

\* C5: during (and so at the end of) a scan in append mode that follows a
\* completed scan of the same archive, with no other command on the catalog in
\* between, the series rows and the instance rows are those the previous scan
\* left.
C5_RescanIdempotent ==
    (scanning /\ scansDone >= 1 /\ append /\ tablesExist = prevContent.tables)
        => Content = prevContent

\* C5's case: the second scan, in append mode, has gone through
\* insert_dicom_metadata for a file, and the catalog is not empty.
C5_Witness ==
    /\ scanning
    /\ scansDone >= 1
    /\ append
    /\ tablesExist = prevContent.tables
    /\ series # {}
    /\ instances # {}
    /\ queue = <<>>
    /\ \E w \in Workers :
        /\ call[w].pc = "returned"
        /\ call[w].exc = ""
        /\ task[w].dir = Len(archive)

\* C6: when a scan has completed, every file was gone through and the
\* SOPInstanceUIDs in the catalog are exactly those of the files that parse and
\* carry both identifiers.
C6_ScanFaultIsolation ==
    (~scanning /\ scansDone >= 1)
        => /\ advanced = AllFiles
           /\ {i.SOPInstanceUID : i \in instances}
                = {archive[p[1]][p[2]].ds["SOPInstanceUID"] :
                     p \in {q \in AllFiles : Indexable(archive[q[1]][q[2]])}}

\* ------------------------------------------------------------ SpecPacs
\* The longest target list file, in lines.
MaxLines == 3

\* An option that was not given on the command line (Python's None).
NotGiven == <<>>

\* The lines a target list file is made of: an accession number, one with
\* blanks around it, an empty line.
FileLines == {"A1", " A2 ", ""}

\* str.strip() on a line of the file.
Strip(line) == IF line = " A2 " THEN "A2" ELSE line

\* [line.strip() for line in f if line.strip()]
ReadTargetList(lines) ==
    LET stripped == [k \in 1..Len(lines) |-> Strip(lines[k])]
        NonBlank(x) == x # ""
    IN  SelectSeq(stripped, NonBlank)

\* bool(start_at_line): None and 0 are false.
LineTruthy(line) == line # NotGiven /\ line[1] # 0

\* bool(start_at_accession): None and '' are false.
AccessionTruthy(acc) == acc # NotGiven /\ acc[1] # ""

\* A plausible bug: the slice starts one entry late.
ResumeAtLine_OffByOne(list, line) ==
    IF line # NotGiven /\ 1 <= line[1] /\ line[1] <= Len(list)
    THEN SubSeq(list, line[1] + 1, Len(list))
    ELSE list

\* A plausible bug: the slice keeps the entries before the line, [:n - 1].
ResumeAtLine_Head(list, line) ==
    IF line # NotGiven /\ 1 <= line[1] /\ line[1] <= Len(list)
    THEN SubSeq(list, 1, line[1] - 1)
    ELSE list

\* `if start_at_line is not None`: accession_numbers[start_at_line - 1:] when
\* the line is in range, the whole list (and a warning) otherwise.
ResumeAtLine(list, line) ==
    IF line # NotGiven /\ 1 <= line[1] /\ line[1] <= Len(list)
    THEN SubSeq(list, line[1], Len(list))
    ELSE list

\* list.index(x): the first position holding x, 0 for ValueError.
IndexOf(list, x) ==
    IF \E k \in 1..Len(list) : list[k] = x
    THEN CHOOSE k \in 1..Len(list) :
            list[k] = x /\ \A j \in 1..(k - 1) : list[j] # x
    ELSE 0

\* A plausible bug: the slice starts after the entry found.
ResumeAtAccession_AfterMatch(list, acc) ==
    IF acc # NotGiven /\ IndexOf(list, acc[1]) # 0
    THEN SubSeq(list, IndexOf(list, acc[1]) + 1, Len(list))
    ELSE list

\* `if start_at_accession is not None`: accession_numbers[start_index:] from
\* the first entry equal to it, the whole list (and a warning) when none is.
ResumeAtAccession(list, acc) ==
    IF acc # NotGiven /\ IndexOf(list, acc[1]) # 0
    THEN SubSeq(list, IndexOf(list, acc[1]), Len(list))
    ELSE list

\* The status codes index_pacs tells apart, and two it takes as failures.
PendingStatuses == {65280, 65281}
SuccessStatus == 0
FailureStatuses == {42752, 65024}

\* A response without identifier (None, or an empty dataset).
NoIdentifier == [tag \in {} |-> ""]

Response(status, identifier) == [status |-> status, identifier |-> identifier]

\* The identifier of a series-level response.
SeriesIdentifier(uid, desc) ==
    [SeriesInstanceUID |-> uid, SeriesDescription |-> desc, PatientName |-> "DOE^J",
     PatientID |-> "P1", StudyDate |-> "20230115", StudyDescription |-> "CT"]

\* What the remote endpoint may answer to the study-level query of A1, of A2.
StudyAnswersA1 ==
    {<<Response(65280, [StudyInstanceUID |-> "T1"]), Response(0, NoIdentifier)>>,
     <<Response(65280, [StudyInstanceUID |-> "T1"]), Response(42752, NoIdentifier)>>,
     <<Response(42752, NoIdentifier)>>}

StudyAnswersA2 ==
    {<<Response(65281, [StudyInstanceUID |-> "T2"]), Response(0, NoIdentifier)>>,
     <<Response(65280, [AccessionNumber |-> "A2"]), Response(0, NoIdentifier)>>,
     <<Response(0, NoIdentifier)>>}

\* What it may answer to the series-level query of study T1, of study T2.
SeriesAnswersT1 ==
    {<<Response(65280, SeriesIdentifier("S1", "d1")), Response(0, NoIdentifier)>>,
     <<Response(65280, Without(SeriesIdentifier("S1", "d1"), "SeriesInstanceUID")),
       Response(65281, SeriesIdentifier("S2", "d1")), Response(65024, NoIdentifier)>>}

SeriesAnswersT2 ==
    {<<Response(65280, SeriesIdentifier("S2", "d2")), Response(0, NoIdentifier)>>,
     <<Response(65280, SeriesIdentifier("S1", "d2")),
       Response(65280, SeriesIdentifier("S3", "d2")), Response(0, NoIdentifier)>>}

Remotes ==
    {[study |-> [A1 |-> a1, A2 |-> a2], series |-> [T1 |-> t1, T2 |-> t2]] :
        a1 \in StudyAnswersA1, a2 \in StudyAnswersA2,
        t1 \in SeriesAnswersT1, t2 \in SeriesAnswersT2}

PacsAETitle == "PACS"

Event(op, arg) == [op |-> op, arg |-> arg]

\* `identifier and tag in identifier`
Carries(identifier, tag) == DOMAIN identifier # {} /\ tag \in DOMAIN identifier

\* The loop over the study-level responses: study_uid is the StudyInstanceUID
\* of the last pending response that carries one.
RECURSIVE StudyUidOf(_, _)
StudyUidOf(responses, uid) ==
    IF responses = <<>> THEN uid
    ELSE LET r == Head(responses) IN
         StudyUidOf(Tail(responses),
                    IF r.status \in PendingStatuses /\ Carries(r.identifier, "StudyInstanceUID")
                    THEN r.identifier["StudyInstanceUID"]
                    ELSE uid)

\* The metadata dict built from a series-level identifier.
PacsMetadata(study, identifier) ==
    [StudyInstanceUID |-> study,
     SeriesInstanceUID |-> identifier["SeriesInstanceUID"],
     StudyDescription |-> DsGet(identifier, "StudyDescription"),
     SeriesDescription |-> DsGet(identifier, "SeriesDescription"),
     PatientName |-> IF "PatientName" \in DOMAIN identifier
                     THEN identifier["PatientName"] ELSE "",
     PatientID |-> DsGet(identifier, "PatientID"),
     StudyDate |-> DsGet(identifier, "StudyDate"),
     archive_path |-> "pacs://PACS"]

\* A plausible bug: the loop ends at the first pending response that lacks a
\* SeriesInstanceUID (a break or an exception where the warning is).
RECURSIVE SeriesUpserts_StopAtMissing(_, _, _)
SeriesUpserts_StopAtMissing(rows, study, responses) ==
    IF responses = <<>> THEN rows
    ELSE LET r == Head(responses) IN
         IF r.status \in PendingStatuses /\ Carries(r.identifier, "SeriesInstanceUID")
         THEN SeriesUpserts_StopAtMissing(UpsertSeries(rows, PacsMetadata(study, r.identifier)),
                                          study, Tail(responses))
         ELSE IF r.status \in PendingStatuses /\ DOMAIN r.identifier # {}
              THEN rows
              ELSE SeriesUpserts_StopAtMissing(rows, study, Tail(responses))

\* The loop over the series-level responses: insert_series_metadata for every
\* pending response that carries a SeriesInstanceUID.
RECURSIVE SeriesUpserts(_, _, _)
SeriesUpserts(rows, study, responses) ==
    IF responses = <<>> THEN rows
    ELSE LET r == Head(responses) IN
         SeriesUpserts(
            IF r.status \in PendingStatuses /\ Carries(r.identifier, "SeriesInstanceUID")
            THEN UpsertSeries(rows, PacsMetadata(study, r.identifier))
            ELSE rows,
            study, Tail(responses))

\* cli.project_index up to ae.associate: the usage error when both resume
\* options are truthy; otherwise the project is created, the tables are
\* created, the target list is read and cut, the association is requested.
ProjectIndex(line, acc) ==
    /\ pacsPc = "cli"
    /\ startAtLine' = line
    /\ startAtAccession' = acc
    /\ IF LineTruthy(line) /\ AccessionTruthy(acc)
       THEN /\ pacsPc' = "usage_error"
            /\ UNCHANGED <<tablesExist, projectCreated, accessions, netlog>>
       ELSE /\ pacsPc' = "associating"
            /\ projectCreated' = TRUE
            /\ tablesExist' = TRUE
            /\ accessions' = ResumeAtAccession(ResumeAtLine(ReadTargetList(targetFile), line),
                                               acc)
            /\ netlog' = Append(netlog, Event("associate", PacsAETitle))
    /\ UNCHANGED <<series, instances, callVars, scanVars, dlVars, cmdVars, targetFile, remote, pos, studyUid>>

\* A plausible bug: the loop is not under `if assoc.is_established`, so the
\* first query is sent on an association that was not established.
Associate_QueryAnyway(established) ==
    /\ pacsPc = "associating"
    /\ pacsPc' = IF established THEN "study" ELSE "assoc_failed"
    /\ pos' = 1
    /\ netlog' = IF ~established /\ accessions # <<>>
                 THEN Append(netlog, Event("c_find_study", accessions[1]))
                 ELSE netlog
    /\ UNCHANGED <<catalogVars, callVars, scanVars, dlVars, cmdVars, targetFile, remote, startAtLine,
                   startAtAccession, projectCreated, accessions, studyUid>>

\* `if assoc.is_established`: the loop starts, or "Failed to associate".
Associate(established) ==
    /\ pacsPc = "associating"
    /\ pacsPc' = IF established THEN "study" ELSE "assoc_failed"
    /\ pos' = 1
    /\ UNCHANGED <<catalogVars, callVars, scanVars, dlVars, cmdVars, targetFile, remote, startAtLine,
                   startAtAccession, projectCreated, accessions, studyUid, netlog>>

\* The study-level C-FIND of the accession at pos and the loop over its responses.
StudyFind ==
    /\ pacsPc = "study"
    /\ pos <= Len(accessions)
    /\ LET uid == StudyUidOf(remote.study[accessions[pos]], None) IN
        /\ netlog' = Append(netlog, Event("c_find_study", accessions[pos]))
        /\ studyUid' = uid
        /\ IF uid # None /\ uid # ""
           THEN pacsPc' = "series" /\ pos' = pos
           ELSE pacsPc' = "study" /\ pos' = pos + 1
    /\ UNCHANGED <<catalogVars, callVars, scanVars, dlVars, cmdVars, targetFile, remote, startAtLine,
                   startAtAccession, projectCreated, accessions>>

\* The series-level C-FIND of study_uid and the loop over its responses.
SeriesFind ==
    /\ pacsPc = "series"
    /\ netlog' = Append(netlog, Event("c_find_series", studyUid))
    /\ series' = SeriesUpserts(series, studyUid, remote.series[studyUid])
    /\ pacsPc' = "study"
    /\ pos' = pos + 1
    /\ UNCHANGED <<tablesExist, instances, callVars, scanVars, dlVars, cmdVars, targetFile, remote, startAtLine,
                   startAtAccession, projectCreated, accessions, studyUid>>

\* A plausible bug: the release is inside the loop.
Release_InLoop ==
    /\ pacsPc = "study"
    /\ pos > 1
    /\ netlog' = Append(netlog, Event("release", PacsAETitle))
    /\ pacsPc' = "released"
    /\ UNCHANGED <<catalogVars, callVars, scanVars, dlVars, cmdVars, targetFile, remote, startAtLine,
                   startAtAccession, projectCreated, accessions, pos, studyUid>>

\* assoc.release() after the last accession.
Release ==
    /\ pacsPc = "study"
    /\ pos > Len(accessions)
    /\ netlog' = Append(netlog, Event("release", PacsAETitle))
    /\ pacsPc' = "released"
    /\ UNCHANGED <<catalogVars, callVars, scanVars, dlVars, cmdVars, targetFile, remote, startAtLine,
                   startAtAccession, projectCreated, accessions, pos, studyUid>>

\* The values the two resume options are given on the command line.
LineOptions == {NotGiven} \cup {<<n>> : n \in (-1)..(MaxLines + 1)}
AccessionOptions == {NotGiven, <<"A1">>, <<"A2">>, <<"A9">>, <<"">>}

TargetFiles == UNION {[1..n -> FileLines] : n \in 0..MaxLines}

InitPacs ==
    /\ tablesExist = FALSE
    /\ EmptyCatalog
    /\ NoCalls
    /\ ScanIdle
    /\ targetFile \in TargetFiles
    /\ remote \in Remotes
    /\ startAtLine = NotGiven
    /\ startAtAccession = NotGiven
    /\ pacsPc = "cli"
    /\ projectCreated = FALSE
    /\ accessions = <<>>
    /\ pos = 0
    /\ studyUid = None
    /\ netlog = <<>>
    /\ DownloadIdle
    /\ RestIdle

NextPacs ==
    \/ \E line \in LineOptions, acc \in AccessionOptions : ProjectIndex(line, acc)
    \/ \E established \in BOOLEAN : Associate(established)
    \/ StudyFind
    \/ SeriesFind
    \/ Release

SpecPacs == InitPacs /\ [][NextPacs]_vars

\* The target list: the accession numbers of the file, blank lines left out.
TargetList == ReadTargetList(targetFile)

\* The accession numbers the study-level queries were sent for, in order.
Queried ==
    LET IsStudyFind(e) == e.op = "c_find_study"
        finds == SelectSeq(netlog, IsStudyFind)
    IN  [k \in 1..Len(finds) |-> finds[k].arg]

\* The entries of list from position n on.
From(list, n) == [k \in 1..(Len(list) - n + 1) |-> list[n + k - 1]]

\* C7: a command given both resume options ends as a usage error with nothing
\* sent to the remote endpoint and neither project nor catalog created.
C7_BothResumeRejected ==
    (pacsPc # "cli" /\ startAtLine # NotGiven /\ startAtAccession # NotGiven)
        => /\ pacsPc = "usage_error"
           /\ netlog = <<>>
           /\ ~projectCreated
           /\ ~tablesExist

\* C8: a run with --start-at-line n alone, once over, has queried exactly the
\* entries of the target list from the 1-based position n on, in order, when
\* 1 <= n <= length, and the whole list otherwise.
C8_ResumeAtLine ==
    (pacsPc = "released" /\ startAtLine # NotGiven /\ startAtAccession = NotGiven)
        => Queried = IF 1 <= startAtLine[1] /\ startAtLine[1] <= Len(TargetList)
                     THEN From(TargetList, startAtLine[1])
                     ELSE TargetList

\* C8's case: a run resumed at an inner line of a three-entry list is over.
C8_Witness ==
    /\ pacsPc = "released"
    /\ startAtLine = <<2>>
    /\ startAtAccession = NotGiven
    /\ Len(TargetList) = 3
    /\ Len(Queried) = 2
    /\ series # {}

\* C9: a run with --start-at-accession a alone, once over, has queried exactly
\* the target list from its first entry equal to a on, in order, and the whole
\* list when no entry equals a.
C9_ResumeAtAccession ==
    (pacsPc = "released" /\ startAtAccession # NotGiven /\ startAtLine = NotGiven)
        => LET a == startAtAccession[1]
               L == TargetList
           IN  IF \E k \in 1..Len(L) : L[k] = a
               THEN \E k \in 1..Len(L) :
                        /\ L[k] = a
                        /\ \A j \in 1..(k - 1) : L[j] # a
                        /\ Queried = From(L, k)
               ELSE Queried = L

\* C9's case: a run resumed at an accession that is not the first entry is over.
C9_Witness ==
    /\ pacsPc = "released"
    /\ startAtLine = NotGiven
    /\ startAtAccession = <<"A2">>
    /\ Len(TargetList) = 3
    /\ TargetList[1] = "A1"
    /\ TargetList[2] = "A2"
    /\ Len(Queried) = 2

\* One pass of the loop of index_pacs: the two queries for one accession and
\* the upserts of the series found.
RunAccession(rows, acc) ==
    LET uid == StudyUidOf(remote.study[acc], None) IN
    IF uid # None /\ uid # ""
    THEN SeriesUpserts(rows, uid, remote.series[uid])
    ELSE rows

\* The full run over list from position k on, rows being the catalog so far:
\* the rows inserted while the accessions at positions >= i were processed.
RECURSIVE FullRunKept(_, _, _, _, _)
FullRunKept(rows, kept, list, k, i) ==
    IF k > Len(list) THEN kept
    ELSE LET after == RunAccession(rows, list[k]) IN
         FullRunKept(after, IF k >= i THEN kept \cup (after \ rows) ELSE kept,
                     list, k + 1, i)

\* The SeriesInstanceUIDs the remote endpoint returns for an accession.
ReturnedUIDs(acc) == {r.SeriesInstanceUID : r \in RunAccession({}, acc)}

\* No series is returned both for an accession before position i and for one
\* at or after it.
NoSharedSeries(list, i) ==
    \A j \in 1..(i - 1), k \in i..Len(list) :
        ReturnedUIDs(list[j]) \cap ReturnedUIDs(list[k]) = {}

ResumedInRange ==
    /\ pacsPc = "released"
    /\ startAtAccession = NotGiven
    /\ startAtLine # NotGiven
    /\ 1 <= startAtLine[1]
    /\ startAtLine[1] <= Len(TargetList)

\* C10 as stated: the run resumed at an in-range line i, on an empty catalog,
\* ends with the series rows of the full run minus those the accessions before
\* i contributed.
C10_ResumeEquivalence ==
    ResumedInRange
        => SeriesContent(series)
             = SeriesContent(FullRunKept({}, {}, TargetList, 1, startAtLine[1]))

\* C10 amended: the same, when no SeriesInstanceUID is returned both for an
\* accession before position i and for one at or after it.
C10_ResumeEquivalenceDisjoint ==
    (ResumedInRange /\ NoSharedSeries(TargetList, startAtLine[1]))
        => SeriesContent(series)
             = SeriesContent(FullRunKept({}, {}, TargetList, 1, startAtLine[1]))

\* C10's case: a run resumed past an accession that has series of its own, and
\* that wrote rows itself.
C10_Witness ==
    /\ ResumedInRange
    /\ startAtLine[1] >= 2
    /\ NoSharedSeries(TargetList, startAtLine[1])
    /\ ReturnedUIDs(TargetList[1]) # {}
    /\ series # {}

\* The statuses of the study-level responses for an accession.
StudyStatuses(acc) ==
    {remote.study[acc][k].status : k \in 1..Len(remote.study[acc])}

\* A status that is neither success nor pending.
IsFailure(status) == status \notin PendingStatuses \cup {SuccessStatus}

\* C11 (first half): a series-level query has just been sent only for an
\* accession whose study-level query returned no failure status.
C11_FailedAccessionSkipped ==
    (netlog # <<>> /\ netlog[Len(netlog)].op = "c_find_series")
        => \A s \in StudyStatuses(accessions[pos - 1]) : ~IsFailure(s)

\* C11 (second half): after a failed study-level query every later accession
\* of the list is still queried.
C11_LaterAccessionsQueried ==
    pacsPc = "released" => Queried = accessions

\* C11's second half has its case: a run is over in which the first accession
\* failed with no study found and a later one was queried.
C11_Witness ==
    /\ pacsPc = "released"
    /\ Len(accessions) >= 2
    /\ StudyStatuses(accessions[1]) = {42752}
    /\ Len(Queried) = Len(accessions)

\* The pending series-level responses that carry a SeriesInstanceUID, over the
\* accessions queried whose study lookup gave a StudyInstanceUID.
ResultsWithUid ==
    {r \in UNION {{remote.series[StudyUidOf(remote.study[Queried[k]], None)][j] :
                    j \in 1..Len(remote.series[StudyUidOf(remote.study[Queried[k]], None)])} :
                  k \in {n \in 1..Len(Queried) :
                            StudyUidOf(remote.study[Queried[n]], None) \notin {None, ""}}} :
        r.status \in PendingStatuses /\ "SeriesInstanceUID" \in DOMAIN r.identifier}

\* C12: once the run is over, the catalog holds a row for exactly the
\* SeriesInstanceUIDs of the series-level results that carry one, results
\* after one without included, each with the remote marker as its origin.
C12_SeriesResultsUpserted ==
    pacsPc = "released"
        => /\ {row.SeriesInstanceUID : row \in series}
                = {r.identifier["SeriesInstanceUID"] : r \in ResultsWithUid}
           /\ \A row \in series : row.archive_path = "pacs://PACS"

\* C12's case: study T1 answered a result without SeriesInstanceUID and then
\* series S2, and the run that queried it is over.
C12_Witness ==
    /\ pacsPc = "released"
    /\ \E k \in 1..Len(netlog) : netlog[k] = Event("c_find_series", "T1")
    /\ \E j \in 1..Len(remote.series["T1"]) :
            /\ remote.series["T1"][j].status \in PendingStatuses
            /\ DOMAIN remote.series["T1"][j].identifier # {}
            /\ "SeriesInstanceUID" \notin DOMAIN remote.series["T1"][j].identifier
    /\ \E row \in series : row.SeriesInstanceUID = "S2" /\ row.StudyInstanceUID = "T1"

\* C13: when the association is not established, no study-level or
\* series-level query was sent and the catalog has no series row.
C13_AssociationFailureAborts ==
    pacsPc = "assoc_failed"
        => /\ \A k \in 1..Len(netlog) : netlog[k].op \notin {"c_find_study", "c_find_series"}
           /\ series = {}

\* C13's case: the association failed with accessions waiting in the list.
C13_Witness ==
    /\ pacsPc = "assoc_failed"
    /\ Len(accessions) >= 2
    /\ tablesExist

\* ------------------------------------------------------- the retrieval batch
\* The largest --threads value of a `project download` command.
MaxPool == 2

\* The catalogs a project can have when `project download` is run: the series
\* an earlier `project index` upserted, in the order it got them.
IndexedSeries ==
    {<<>>, <<"S1">>, <<"S1", "S2">>, <<"S2", "S1", "S3">>}

RECURSIVE CatalogOf(_, _)
CatalogOf(rows, uids) ==
    IF uids = <<>> THEN rows
    ELSE CatalogOf(UpsertSeries(rows, PacsMetadata("T1", SeriesIdentifier(Head(uids), "d1"))),
                   Tail(uids))

\* The selection files given with --input: a header row and data rows.
SelectionFiles ==
    {<<>>,
     <<<<"SeriesInstanceUID">>>>,
     <<<<"SeriesInstanceUID">>, <<"S1">>>>,
     <<<<"SeriesInstanceUID">>, <<"S9">>, <<"S2">>, <<"S2">>>>,
     <<<<"StudyInstanceUID", "SeriesInstanceUID">>, <<"T1", "S1">>, <<"T1", "S3">>>>,
     <<<<"StudyInstanceUID", "SeriesInstanceUID">>, <<"T1", "S2">>, <<"T1">>>>,
     <<<<"StudyInstanceUID">>, <<"T1">>>>}

Selections == {NotGiven} \cup {<<f>> : f \in SelectionFiles}

\* header = next(reader); uid_col = header.index('SeriesInstanceUID');
\* uids_to_download.add(row[uid_col]) for every row: the set, or the exception.
ReadSelection(file) ==
    IF file = <<>> THEN [exc |-> "StopIteration", uids |-> {}]
    ELSE LET col == IndexOf(file[1], "SeriesInstanceUID") IN
         IF col = 0 THEN [exc |-> "ValueError", uids |-> {}]
         ELSE IF \E k \in 2..Len(file) : Len(file[k]) < col
              THEN [exc |-> "IndexError", uids |-> {}]
              ELSE [exc |-> "", uids |-> {file[k][col] : k \in 2..Len(file)}]

\* SELECT StudyInstanceUID, SeriesInstanceUID FROM series: the rows in the
\* order of their ids.
RECURSIVE AllSeries(_)
AllSeries(rows) ==
    IF rows = {} THEN <<>>
    ELSE LET last == CHOOSE r \in rows : \A q \in rows : q.id <= r.id
         IN  Append(AllSeries(rows \ {last}),
                    [StudyInstanceUID |-> last.StudyInstanceUID,
                     SeriesInstanceUID |-> last.SeriesInstanceUID])

\* A plausible bug: the selection is read but not applied.
Candidates_IgnoreSelection(rows, sel) == AllSeries(rows)

\* series_to_download: all_series, or with --input the entries of all_series
\* whose SeriesInstanceUID is in uids_to_download.
Candidates(rows, sel) ==
    IF sel = NotGiven THEN AllSeries(rows)
    ELSE LET InSelection(s) == s.SeriesInstanceUID \in ReadSelection(sel[1]).uids
         IN  SelectSeq(AllSeries(rows), InSelection)

\* A plausible bug: the check of the catalog file is missing.
DownloadPrecondition_NoDbCheck(project, db) ==
    IF ~project THEN "project_not_found" ELSE ""

\* The two early returns of download_project: the project's config is not
\* found, the catalog file does not exist.
DownloadPrecondition(project, db) ==
    IF ~project THEN "project_not_found"
    ELSE IF ~db THEN "database_not_found"
    ELSE ""

\* A future: the series of the task, where download_series is, and the
\* association it has with the remote endpoint.
Future(s) == [series |-> s, state |-> "queued", assoc |-> "none"]

Ended(f) == f.state \in {"returned", "raised"}

Running(f) == f.state \in {"associating", "established"}

\* download_project up to time.sleep(1): the early returns, the output
\* directory, the receiver thread started.
DownloadProject(th, sel) ==
    /\ dlPc = "cli"
    /\ dlThreads' = th
    /\ selection' = sel
    /\ LET refusal == DownloadPrecondition(projectCreated, tablesExist) IN
       IF refusal # ""
       THEN /\ dlPc' = refusal
            /\ UNCHANGED <<outputDir, scp>>
       ELSE /\ dlPc' = "sleeping"
            /\ outputDir' = TRUE
            /\ scp' = "started"
    /\ UNCHANGED <<catalogVars, callVars, scanVars, pacsVars, cmdVars, dlExc, stopEvent, futures, waitIdx>>

\* time.sleep(1) returns, whatever the receiver thread has done meanwhile.
SleepDone ==
    /\ dlPc = "sleeping"
    /\ dlPc' = "selecting"
    /\ UNCHANGED <<catalogVars, callVars, scanVars, pacsVars, cmdVars, dlThreads, selection, dlExc,
                   outputDir, scp, stopEvent, futures, waitIdx>>

\* run_scp: ae.start_server, the receiver listens.
ReceiverListen ==
    /\ scp = "started"
    /\ scp' = "listening"
    /\ UNCHANGED <<catalogVars, callVars, scanVars, pacsVars, cmdVars, dlPc, dlThreads, selection, dlExc,
                   outputDir, stopEvent, futures, waitIdx>>

\* run_scp: stop_event.wait() returns, scp.shutdown(), the thread ends.
ReceiverShutdown ==
    /\ scp = "listening"
    /\ stopEvent
    /\ scp' = "shutdown"
    /\ UNCHANGED <<catalogVars, callVars, scanVars, pacsVars, cmdVars, dlPc, dlThreads, selection, dlExc,
                   outputDir, stopEvent, futures, waitIdx>>

\* The candidate series are read and one download_series is submitted for
\* each; an exception of the selection's reading ends download_project.
SelectAndSubmit ==
    /\ dlPc = "selecting"
    /\ LET exc == IF selection = NotGiven THEN "" ELSE ReadSelection(selection[1]).exc IN
       IF exc # ""
       THEN /\ dlPc' = "raised"
            /\ dlExc' = exc
            /\ UNCHANGED <<futures, waitIdx>>
       ELSE /\ dlPc' = "waiting"
            /\ futures' = LET c == Candidates(series, selection)
                          IN  [k \in 1..Len(c) |-> Future(c[k])]
            /\ waitIdx' = 1
            /\ UNCHANGED dlExc
    /\ UNCHANGED <<catalogVars, callVars, scanVars, pacsVars, cmdVars, dlThreads, selection,
                   outputDir, scp, stopEvent>>

\* A free worker of the pool takes the oldest queued task: download_series up
\* to ae.associate, the association is requested.
TaskStart(i) ==
    /\ i \in 1..Len(futures)
    /\ futures[i].state = "queued"
    /\ \A j \in 1..(i - 1) : futures[j].state # "queued"
    /\ Cardinality({j \in 1..Len(futures) : Running(futures[j])}) < dlThreads
    /\ futures' = [futures EXCEPT ![i].state = "associating", ![i].assoc = "requested"]
    /\ UNCHANGED <<catalogVars, callVars, scanVars, pacsVars, cmdVars, dlPc, dlThreads, selection, dlExc,
                   outputDir, scp, stopEvent, waitIdx>>

\* `if assoc.is_established`; when it is not, "Failed to associate with PACS
\* for C-MOVE" is printed and download_series returns.
TaskAssociate(i, established) ==
    /\ i \in 1..Len(futures)
    /\ futures[i].state = "associating"
    /\ futures' = IF established
                  THEN [futures EXCEPT ![i].state = "established", ![i].assoc = "established"]
                  ELSE [futures EXCEPT ![i].state = "returned", ![i].assoc = "rejected"]
    /\ UNCHANGED <<catalogVars, callVars, scanVars, pacsVars, cmdVars, dlPc, dlThreads, selection, dlExc,
                   outputDir, scp, stopEvent, waitIdx>>

\* `ds = dcmread()`: pydicom's dcmread has a required argument, the call
\* raises TypeError. download_series has no try/finally: the task ends there,
\* send_c_move and assoc.release() are not reached.
TaskRetrieve(i) ==
    /\ i \in 1..Len(futures)
    /\ futures[i].state = "established"
    /\ futures' = [futures EXCEPT ![i].state = "raised"]
    /\ UNCHANGED <<catalogVars, callVars, scanVars, pacsVars, cmdVars, dlPc, dlThreads, selection, dlExc,
                   outputDir, scp, stopEvent, waitIdx>>

\* future.result() of the next future: returns when the task has returned,
\* raises the task's exception when the task has raised.
WaitResult ==
    /\ dlPc = "waiting"
    /\ waitIdx <= Len(futures)
    /\ Ended(futures[waitIdx])
    /\ IF futures[waitIdx].state = "raised"
       THEN /\ dlPc' = "unwinding"
            /\ dlExc' = "TypeError"
            /\ UNCHANGED waitIdx
       ELSE /\ waitIdx' = waitIdx + 1
            /\ UNCHANGED <<dlPc, dlExc>>
    /\ UNCHANGED <<catalogVars, callVars, scanVars, pacsVars, cmdVars, dlThreads, selection,
                   outputDir, scp, stopEvent, futures>>

\* The end of the `with ThreadPoolExecutor` block: shutdown(wait=True) waits
\* for every task; then the block is left, normally or with the exception.
ExecutorExit ==
    /\ \/ dlPc = "waiting" /\ waitIdx > Len(futures)
       \/ dlPc = "unwinding"
    /\ \A k \in 1..Len(futures) : Ended(futures[k])
    /\ dlPc' = IF dlPc = "unwinding" THEN "raised" ELSE "grace"
    /\ UNCHANGED <<catalogVars, callVars, scanVars, pacsVars, cmdVars, dlThreads, selection, dlExc,
                   outputDir, scp, stopEvent, futures, waitIdx>>

\* A plausible bug: stop_event.set() is placed before the futures are waited for.
StopAllowed_Early(pc) == pc \in {"waiting", "grace"}

\* stop_event.set() is reached after the executor block and time.sleep(5).
StopAllowed(pc) == pc = "grace"

\* time.sleep(5); stop_event.set()
GraceStop ==
    /\ StopAllowed(dlPc)
    /\ stopEvent' = TRUE
    /\ dlPc' = "joining"
    /\ UNCHANGED <<catalogVars, callVars, scanVars, pacsVars, cmdVars, dlThreads, selection, dlExc,
                   outputDir, scp, futures, waitIdx>>

\* scp_thread.join() returns once the receiver thread has ended; "Download
\* process finished." (the zipping of the output touches no state kept here).
Join ==
    /\ dlPc = "joining"
    /\ scp = "shutdown"
    /\ dlPc' = "finished"
    /\ UNCHANGED <<catalogVars, callVars, scanVars, pacsVars, cmdVars, dlThreads, selection, dlExc,
                   outputDir, scp, stopEvent, futures, waitIdx>>

\* ------------------------------------------------ the receiver's store handler
\* The number of objects pushed to the receiver during a batch.
MaxStores == 2

\* The status codes handle_store returns.
StoreSuccess == 0
OutOfResources == 42752

\* The datasets pushed to the receiver.
StoreDs(name, id, study, desc, sop) ==
    [PatientName |-> name, PatientID |-> id, StudyInstanceUID |-> study,
     SeriesDescription |-> desc, SOPInstanceUID |-> sop]

\* The objects pushed: a dataset, and whether the output directory can be
\* written when it arrives (os.makedirs and save_as succeed).
PushedObjects ==
    {[ds |-> StoreDs("DOE^JOHN", "P1", "T1", "CHEST PA", "I1"), disk |-> TRUE],
     [ds |-> StoreDs("DOE^JOHN", "P1", "T1", "CHEST PA", "I1"), disk |-> FALSE],
     [ds |-> StoreDs("DOE^JOHN^QUINCY", "P1", "T1", "CHEST PA", "I2"), disk |-> TRUE],
     [ds |-> Without(StoreDs("DOE", "P1", "T1", "", "I3"), "SeriesDescription"), disk |-> TRUE],
     [ds |-> Without(StoreDs("", "", "T1", "CHEST PA", "I4"), "PatientName"), disk |-> TRUE],
     [ds |-> Without(Without(StoreDs("", "", "", "CHEST PA", "I5"), "PatientID"),
                     "StudyInstanceUID"), disk |-> TRUE],
     [ds |-> Without(StoreDs("DOE^JOHN", "P1", "T1", "CHEST PA", ""), "SOPInstanceUID"),
      disk |-> TRUE]}

\* re.sub(r'[\s/\\?%*:|"<>]', '_', name) on the names that occur here.
linux_safe_name(name) == IF name = "CHEST PA" THEN "CHEST_PA" ELSE name

\* str(ds.PatientName).split('^') on the names that occur here.
NameParts(name) ==
    IF name = "DOE^JOHN" THEN <<"DOE", "JOHN">>
    ELSE IF name = "DOE^JOHN^QUINCY" THEN <<"DOE", "JOHN", "QUINCY">>
    ELSE <<name>>

\* f"{first_name}{middle_initial}_{last_name}" on the parts that occur here.
FormatName(parts) ==
    IF parts = <<"DOE", "JOHN">> THEN "JOHN_DOE"
    ELSE IF parts = <<"DOE", "JOHN", "QUINCY">> THEN "JOHN_Q_DOE"
    ELSE "_"

\* `tag in ds and ds.tag`
Present(ds, tag) == tag \in DOMAIN ds /\ ds[tag] # ""

\* get_subject_name: the name when it has two parts or more, else the patient
\* id, else the study; AttributeError when the dataset has none of them.
get_subject_name(ds) ==
    IF Present(ds, "PatientName") /\ Len(NameParts(ds["PatientName"])) >= 2
    THEN [exc |-> "", name |-> FormatName(NameParts(ds["PatientName"]))]
    ELSE IF Present(ds, "PatientID")
    THEN [exc |-> "", name |-> ds["PatientID"]]
    ELSE IF "StudyInstanceUID" \in DOMAIN ds
    THEN [exc |-> "", name |-> ds["StudyInstanceUID"]]
    ELSE [exc |-> "AttributeError", name |-> ""]

\* Which of the three sources get_subject_name took the name from: the prefix
\* of the directory name ("" for a patient name, "Patient_", "Study_").
SubjectPrefix(ds) ==
    IF Present(ds, "PatientName") /\ Len(NameParts(ds["PatientName"])) >= 2 THEN ""
    ELSE IF Present(ds, "PatientID") THEN "Patient_"
    ELSE "Study_"

\* A plausible bug: the handler answers success from a finally clause.
handle_store_AlwaysSuccess(obj) == [status |-> StoreSuccess, files |-> {}]

\* handle_store: the status returned and the file written, if any. Every
\* exception is caught and answered with 0xA700.
handle_store(obj) ==
    LET ds == obj.ds
        subject == get_subject_name(ds)
        description == IF "SeriesDescription" \in DOMAIN ds
                       THEN ds["SeriesDescription"] ELSE "UNKNOWN_SERIES"
    IN  IF subject.exc # "" \/ ~obj.disk \/ "SOPInstanceUID" \notin DOMAIN ds
        THEN [status |-> OutOfResources, files |-> {}]
        ELSE [status |-> StoreSuccess,
              files |-> {[prefix |-> SubjectPrefix(ds),
                          subject |-> linux_safe_name(subject.name),
                          session |-> linux_safe_name(description),
                          sop |-> ds["SOPInstanceUID"]]}]

\* A C-STORE request arrives at the listening receiver and is handled; the
\* listener goes on.
ReceiveStore(obj) ==
    /\ scp = "listening"
    /\ Len(storeLog) < MaxStores
    /\ LET answer == handle_store(obj) IN
        /\ storeLog' = Append(storeLog, [obj |-> obj, status |-> answer.status])
        /\ outFiles' = outFiles \cup answer.files
    /\ UNCHANGED <<catalogVars, callVars, scanVars, pacsVars, dlVars, statusVars, queryVars,
                   sendVars>>

\* The project is there or not, and so is its catalog, which holds the series
\* an indexing run left.
InitDownload ==
    /\ projectCreated \in BOOLEAN
    /\ tablesExist \in BOOLEAN
    /\ series \in {CatalogOf({}, uids) : uids \in IndexedSeries}
    /\ ~tablesExist => series = {}
    /\ instances = {}
    /\ NoCalls
    /\ ScanIdle
    /\ targetFile = <<>>
    /\ remote = <<>>
    /\ startAtLine = <<>>
    /\ startAtAccession = <<>>
    /\ pacsPc = "released"
    /\ accessions = <<>>
    /\ pos = 0
    /\ studyUid = None
    /\ netlog = <<>>
    /\ DownloadIdle
    /\ RestIdle

NextDownload ==
    \/ \E th \in 1..MaxPool, sel \in Selections : DownloadProject(th, sel)
    \/ SleepDone
    \/ ReceiverListen
    \/ ReceiverShutdown
    \/ SelectAndSubmit
    \/ \E i \in 1..Len(futures) : TaskStart(i)
    \/ \E i \in 1..Len(futures), established \in BOOLEAN : TaskAssociate(i, established)
    \/ \E i \in 1..Len(futures) : TaskRetrieve(i)
    \/ WaitResult
    \/ ExecutorExit
    \/ GraceStop
    \/ Join
    \/ \E obj \in PushedObjects : ReceiveStore(obj)

SpecDownload == InitDownload /\ [][NextDownload]_vars

\* The tasks of the batch.
Tasks == 1..Len(futures)

\* C14: whenever a retrieve task has sent an outbound request (the request
\* for its association being the first), the receiver is listening or has
\* been listening.
C14_ListeningBeforeRequest ==
    (\E i \in Tasks : futures[i].assoc # "none") => scp \in {"listening", "shutdown"}

\* C15: once download_project has ended after starting the receiver, the stop
\* signal is set and the receiver thread has ended and was joined.
C15_ReceiverStoppedAtEnd ==
    (dlPc \in {"finished", "raised"} /\ outputDir)
        => (stopEvent /\ scp = "shutdown")

\* C16: from the start of the first retrieve task until the stop signal the
\* receiver thread is alive, and the stop signal is set only when every
\* submitted task has ended.
C16_ReceiverActiveUntilStop ==
    /\ ((\E i \in Tasks : futures[i].state # "queued") /\ ~stopEvent)
            => scp \in {"started", "listening"}
    /\ scp = "shutdown" => stopEvent
    /\ stopEvent => \A i \in Tasks : Ended(futures[i])

\* C16's case: the stop signal is set after three tasks, run by a pool of
\* two, have all ended.
C16_Witness ==
    /\ stopEvent
    /\ Len(futures) = 3
    /\ dlThreads = 2
    /\ \A i \in Tasks : Ended(futures[i])

\* The tasks were submitted.
Submitted ==
    \/ dlPc \in {"waiting", "unwinding", "grace", "joining", "finished"}
    \/ dlPc = "raised" /\ dlExc = "TypeError"

\* The SeriesInstanceUIDs of the catalog that are candidates: all of them
\* without a selection, those under the selection's SeriesInstanceUID column
\* with one.
CandidateUids ==
    IF selection = NotGiven THEN {r.SeriesInstanceUID : r \in series}
    ELSE LET f == selection[1] IN
         {r.SeriesInstanceUID : r \in
            {q \in series : \E c \in 1..Len(f[1]), k \in 2..Len(f) :
                                /\ f[1][c] = "SeriesInstanceUID"
                                /\ f[k][c] = q.SeriesInstanceUID}}

\* C17: once the tasks are submitted there is exactly one task per candidate
\* series: as many tasks as candidates, and every candidate has its task.
C17_OneTaskPerCandidate ==
    Submitted
        => /\ Len(futures) = Cardinality(CandidateUids)
           /\ {futures[i].series.SeriesInstanceUID : i \in Tasks} = CandidateUids

\* C17's case: a selection naming one series twice and one the catalog does
\* not have, a catalog of three series, a pool of two, one task.
C17_Witness ==
    /\ Submitted
    /\ selection = <<<<<<"SeriesInstanceUID">>, <<"S9">>, <<"S2">>, <<"S2">>>>>>
    /\ Cardinality(series) = 3
    /\ dlThreads = 2
    /\ Len(futures) = 1

\* C18: a task that has ended has no association left open: the one it
\* requested was refused or was released.
C18_AssociationReleased ==
    \A i \in Tasks :
        Ended(futures[i]) => futures[i].assoc \in {"rejected", "released"}

\* C19: once a task has failed to establish its association, no task requests
\* an association any more.
C19_AssociationFailureAbortsBatch ==
    [][(\E i \in Tasks : futures[i].assoc = "rejected")
            => \A j \in Tasks : futures'[j].assoc = "requested"
                                    => futures[j].assoc = "requested"]_vars

\* C20: when the project or its catalog is not found, the command has ended
\* with that message, with no output directory, no receiver and no task.
C20_FatalPreconditions ==
    (dlPc # "cli" /\ (~projectCreated \/ ~tablesExist))
        => /\ dlPc \in {"project_not_found", "database_not_found"}
           /\ ~outputDir
           /\ scp = "none"
           /\ futures = <<>>

\* C20's case: the project is there, its catalog is not, the command is over.
C20_Witness ==
    /\ dlPc = "database_not_found"
    /\ projectCreated
    /\ ~tablesExist

\* C21: every object pushed was answered with the success status and is
\* written, or its handling failed (no SOPInstanceUID; no patient name of two
\* parts, no patient id and no study; output not writable) and it was answered with 0xA700; and with
\* objects handled, failed ones among them, the listener is still listening
\* as long as the stop signal is not set.
C21_StoreHandlerStatus ==
    /\ \A k \in 1..Len(storeLog) :
        LET e == storeLog[k]
            failed == \/ ~e.obj.disk
                      \/ "SOPInstanceUID" \notin DOMAIN e.obj.ds
                      \/ /\ ~("PatientName" \in DOMAIN e.obj.ds
                                /\ Len(NameParts(e.obj.ds["PatientName"])) >= 2)
                         /\ ~("PatientID" \in DOMAIN e.obj.ds /\ e.obj.ds["PatientID"] # "")
                         /\ "StudyInstanceUID" \notin DOMAIN e.obj.ds
        IN  /\ failed => e.status = 42752
            /\ ~failed => /\ e.status = 0
                          /\ \E f \in outFiles : f.sop = e.obj.ds["SOPInstanceUID"]
    /\ (storeLog # <<>> /\ ~stopEvent) => scp = "listening"

\* C21's case: an object whose handling failed, then an object written.
C21_Witness ==
    /\ Len(storeLog) = 2
    /\ storeLog[1].status = 42752
    /\ storeLog[2].status = 0
    /\ \E f \in outFiles : f.sop = storeLog[2].obj.ds["SOPInstanceUID"]
    /\ scp = "listening"

\* C27: at most one worker is inside the lookup-insert-commit section, the
\* workers inside it are exactly the holders of db_lock, and so a worker that
\* left the section, by returning or by raising, holds the lock no more.
C27_WriteSerialization ==
    /\ Cardinality({w \in Workers : call[w].pc \in {"selected", "instance"}}) <= 1
    /\ lockHolders = {w \in Workers : call[w].pc \in {"selected", "instance"}}

\* C27's case: a call raised inside `with db_lock`, and after it another
\* worker is inside the section.
C27_Witness ==
    \E w1 \in Workers, w2 \in Workers :
        /\ call[w1].pc = "returned"
        /\ call[w1].exc = "OperationalError"
        /\ call[w2].pc = "instance"
        /\ w2 \in lockHolders

\* The events sent to the remote endpoint with the given operation.
EventsOf(op) == {k \in 1..Len(netlog) : netlog[k].op = op}

\* C28: one association, requested before any query; the study-level queries
\* follow the list in its order; every series-level query directly follows
\* the study-level query of its accession; when the next study-level query or
\* the release is due, the catalog holds all the rows of the accessions before;
\* the release is the last event and comes after the last accession.
C28_SequentialSingleAssociation ==
    /\ netlog # <<>> => netlog[1].op = "associate"
    /\ Cardinality(EventsOf("associate")) <= 1
    /\ Len(Queried) <= Len(accessions)
    /\ \A k \in 1..Len(Queried) : Queried[k] = accessions[k]
    /\ \A k \in EventsOf("c_find_series") : netlog[k - 1].op = "c_find_study"
    /\ pacsPc = "study"
        => /\ Len(Queried) = pos - 1
           /\ series = FullRunKept({}, {}, SubSeq(accessions, 1, pos - 1), 1, 1)
    /\ \A k \in EventsOf("release") : k = Len(netlog) /\ Queried = accessions
    /\ pacsPc = "released" => Cardinality(EventsOf("release")) = 1

\* C28's case: a run over two accessions or more, each with a series-level
\* query, is over.
C28_Witness ==
    /\ pacsPc = "released"
    /\ Len(accessions) >= 2
    /\ Cardinality(EventsOf("c_find_series")) >= 2
    /\ Cardinality(series) >= 2

\* C29: every instance row refers to a series row that is there, there is one
\* row per SOPInstanceUID, and no step changes the series an instance row
\* belongs to.
C29_ReferentialIntegrity ==
    /\ [](/\ \A i \in instances : \E r \in series : r.id = i.series_id
          /\ \A i1 \in instances, i2 \in instances :
                i1.SOPInstanceUID = i2.SOPInstanceUID => i1.series_id = i2.series_id /\ i1 = i2)
    /\ [][\A i \in instances : \E j \in instances' :
            j.SOPInstanceUID = i.SOPInstanceUID /\ j.series_id = i.series_id]_vars

\* C29's case: instances under two series, and a call that named the other
\* series for a SOPInstanceUID in the catalog has returned.
C29_Witness ==
    /\ Cardinality({i.series_id : i \in instances}) = 2
    /\ \E w \in Workers, i \in instances, r \in series :
        /\ call[w].pc = "returned"
        /\ call[w].fn = "insert_dicom_metadata"
        /\ i.SOPInstanceUID = call[w].md["SOPInstanceUID"]
        /\ r.id = i.series_id
        /\ r.SeriesInstanceUID # call[w].md["SeriesInstanceUID"]

\* ------------------------------------------- the status codes of a response
\* How far around 0x0000 and around 0xFF00 the status codes are taken from.
StatusSpan == 8

\* The status codes classified: those around success, those around pending,
\* and the failure, warning and cancel codes of the protocol.
StatusCodes ==
    (0..StatusSpan) \cup ((65280 - StatusSpan)..(65280 + StatusSpan))
        \cup FailureStatuses \cup {43264, 45056, 49152}

\* index_pacs, in both of its loops: `in (0xFF00, 0xFF01)` is pending,
\* `elif status.Status != 0` is a failure, what is left is success.
IndexerClass(s) ==
    IF s \in PendingStatuses THEN "pending"
    ELSE IF s # SuccessStatus THEN "failure"
    ELSE "success"

\* download_series: `if status.Status not in (0xFF00, 0x0000)` prints
\* "C-MOVE failed"; pending and success are not told apart.
RetrieveClass(s) ==
    IF s \notin {65280, 0} THEN "failure" ELSE "pending_or_success"

ClassifyIndexer ==
    /\ indexerSays = ""
    /\ indexerSays' = IndexerClass(statusCode)
    /\ UNCHANGED <<catalogVars, callVars, scanVars, pacsVars, dlVars, rxVars, statusCode,
                   retrieveSays, queryVars, sendVars>>

ClassifyRetrieve ==
    /\ retrieveSays = ""
    /\ retrieveSays' = RetrieveClass(statusCode)
    /\ UNCHANGED <<catalogVars, callVars, scanVars, pacsVars, dlVars, rxVars, statusCode,
                   indexerSays, queryVars, sendVars>>

InitStatus ==
    /\ tablesExist = FALSE
    /\ EmptyCatalog
    /\ NoCalls
    /\ ScanIdle
    /\ PacsIdle
    /\ DownloadIdle
    /\ RxIdle
    /\ QueryIdle
    /\ SendIdle
    /\ statusCode \in StatusCodes
    /\ indexerSays = ""
    /\ retrieveSays = ""

NextStatus ==
    \/ ClassifyIndexer
    \/ ClassifyRetrieve

SpecStatus == InitStatus /\ [][NextStatus]_vars

\* C30: a status code is a failure for the retrieve task exactly when it is a
\* failure for the indexer; in particular a code the indexer takes as pending
\* is not reported as failed by the retrieve task.
C30_SameClassification ==
    (indexerSays # "" /\ retrieveSays # "")
        => ((indexerSays = "failure") <=> (retrieveSays = "failure"))

\* ------------------------------------------------------------- the search
\* The series the searched catalogs are made of: three dates, one series
\* without a StudyDate, one without a SeriesDescription (NULL columns).
QueryPool ==
    <<[BaseTags EXCEPT !.StudyDate = "20230101"]
        @@ [SeriesInstanceUID |-> "S1", SeriesDescription |-> "CHEST PA"],
      [BaseTags EXCEPT !.StudyDate = "20230115", !.StudyDescription = "CT chest"]
        @@ [SeriesInstanceUID |-> "S2", SeriesDescription |-> "Abdomen"],
      [BaseTags EXCEPT !.StudyDate = "20230201"]
        @@ [SeriesInstanceUID |-> "S3", SeriesDescription |-> "Abdomen"],
      [BaseTags EXCEPT !.StudyDate = None]
        @@ [SeriesInstanceUID |-> "S4", SeriesDescription |-> "CHEST PA"],
      [BaseTags EXCEPT !.StudyDate = "20230115"]
        @@ [SeriesInstanceUID |-> "S5", SeriesDescription |-> None]>>

\* The catalog holding the series of the pool at the positions chosen,
\* inserted in the pool's order.
RECURSIVE QueryCatalog(_, _, _)
QueryCatalog(rows, chosen, k) ==
    IF k > Len(QueryPool) THEN rows
    ELSE QueryCatalog(IF k \in chosen
                      THEN UpsertSeries(rows, QueryPool[k] @@ [archive_path |-> ArchivePath])
                      ELSE rows,
                      chosen, k + 1)

\* The values given to --date, --sdate, --edate, --targets and --pattern.
DateOptions == {NotGiven, <<"20230115">>}
StartOptions == {NotGiven, <<"20230110">>, <<"20230115">>}
EndOptions == {NotGiven, <<"20230131">>, <<"20230115">>}
TargetOptions ==
    {NotGiven, <<<<"SeriesDescription">>>>, <<<<"StudyDescription", "SeriesDescription">>>>}
PatternOptions == {NotGiven, <<"(?i)chest">>, <<"Abdomen">>}

\* The order of the 8-character date strings that occur here: a string of
\* digits compares as the number it writes.
DateNumber(d) ==
    IF d = "20230101" THEN 20230101
    ELSE IF d = "20230110" THEN 20230110
    ELSE IF d = "20230115" THEN 20230115
    ELSE IF d = "20230131" THEN 20230131
    ELSE 20230201

\* A plausible bug: the start date is exclusive.
StartCondition_Exclusive(value, sdate) ==
    value # None /\ DateNumber(value) > DateNumber(sdate)

\* s.StudyDate = ?, s.StudyDate >= ?, s.StudyDate <= ? : a comparison with
\* NULL is not true.
DateCondition(value, date) == value # None /\ value = date
StartCondition(value, sdate) == value # None /\ DateNumber(value) >= DateNumber(sdate)
EndCondition(value, edate) == value # None /\ DateNumber(value) <= DateNumber(edate)

\* `if date:`, `if sdate:`, `if edate:` and their conditions, joined by AND.
DateConditions(row, args) ==
    /\ args.date # NotGiven => DateCondition(row.StudyDate, args.date[1])
    /\ args.sdate # NotGiven => StartCondition(row.StudyDate, args.sdate[1])
    /\ args.edate # NotGiven => EndCondition(row.StudyDate, args.edate[1])

\* re.compile(expr).search(item) is not None, on the values that occur here.
regexp(expr, item) ==
    IF expr = "(?i)chest" THEN item \in {"CHEST PA", "CT chest"}
    ELSE item = "Abdomen"

\* `if pattern and targets`
HasPattern(args) == args.pattern # NotGiven /\ args.targets # NotGiven

\* (s.t1 REGEXP ? OR s.t2 REGEXP ? ...)
PatternCondition(row, args) ==
    \E k \in 1..Len(args.targets[1]) :
        row[args.targets[1][k]] # None /\ regexp(args.pattern[1], row[args.targets[1][k]])

\* The REGEXP function is handed the NULL of a column as None and
\* re.search(None) raises TypeError, which ends the query with an
\* OperationalError. It is certainly called on the first target of a row that
\* passes the date conditions; whether it is called on the other targets and
\* rows is up to the evaluation order of the engine.
RegexpMustRaise(rows, args) ==
    HasPattern(args) /\ \E r \in rows : DateConditions(r, args) /\ r[args.targets[1][1]] = None

RegexpMayRaise(rows, args) ==
    HasPattern(args) /\ \E r \in rows, k \in 1..Len(args.targets[1]) : r[args.targets[1][k]] = None

\* The six columns of SELECT DISTINCT.
Selected(row) ==
    [StudyDescription |-> row.StudyDescription, SeriesDescription |-> row.SeriesDescription,
     PatientName |-> row.PatientName, PatientID |-> row.PatientID,
     StudyDate |-> row.StudyDate, SeriesInstanceUID |-> row.SeriesInstanceUID]

\* cursor.fetchall() when the query does not raise.
QueryRows(rows, args) ==
    {Selected(r) : r \in {q \in rows :
        DateConditions(q, args) /\ (HasPattern(args) => PatternCondition(q, args))}}

\* query_db
QueryDb ==
    /\ qResult = <<>>
    /\ \E raised \in BOOLEAN :
        /\ RegexpMustRaise(series, qArgs) => raised
        /\ ~RegexpMayRaise(series, qArgs) => ~raised
        /\ qResult' = IF raised THEN [exc |-> "OperationalError", rows |-> {}]
                      ELSE [exc |-> "", rows |-> QueryRows(series, qArgs)]
    /\ UNCHANGED <<catalogVars, callVars, scanVars, pacsVars, dlVars, rxVars, statusVars,
                   qArgs, sendVars>>

InitQuery ==
    /\ tablesExist = TRUE
    /\ series \in {QueryCatalog({}, chosen, 1) : chosen \in SUBSET (1..Len(QueryPool))}
    /\ instances = {}
    /\ NoCalls
    /\ ScanIdle
    /\ PacsIdle
    /\ DownloadIdle
    /\ RxIdle
    /\ StatusIdle
    /\ SendIdle
    /\ qArgs \in [date : DateOptions, sdate : StartOptions, edate : EndOptions,
                  targets : TargetOptions, pattern : PatternOptions]
    /\ qResult = <<>>

NextQuery ==
    \/ QueryDb

SpecQuery == InitQuery /\ [][NextQuery]_vars

\* C23: a search with date options only returns exactly the series whose
\* StudyDate is the exact date (if given), is not before the start date (if
\* given) and is not after the end date (if given).
C23_DateFilter ==
    (qResult # <<>> /\ ~(qArgs.pattern # NotGiven /\ qArgs.targets # NotGiven))
        => /\ qResult.exc = ""
           /\ {r.SeriesInstanceUID : r \in qResult.rows}
                = {r.SeriesInstanceUID : r \in
                    {q \in series :
                        /\ qArgs.date # NotGiven => q.StudyDate = qArgs.date[1]
                        /\ qArgs.sdate # NotGiven
                            => /\ q.StudyDate \in {"20230101", "20230115", "20230201"}
                               /\ DateNumber(q.StudyDate) >= DateNumber(qArgs.sdate[1])
                        /\ qArgs.edate # NotGiven
                            => /\ q.StudyDate \in {"20230101", "20230115", "20230201"}
                               /\ DateNumber(q.StudyDate) <= DateNumber(qArgs.edate[1])}}
           /\ \A r \in qResult.rows : \E q \in series : r = Selected(q)

\* C23's case: series dated 20230101, 20230115 and 20230201, a search from
\* 20230115 to 20230131: the bounds are met and one series is returned.
C23_Witness ==
    /\ qResult # <<>>
    /\ {q.StudyDate : q \in series} = {"20230101", "20230115", "20230201"}
    /\ qArgs.date = NotGiven
    /\ qArgs.sdate = <<"20230115">>
    /\ qArgs.edate = <<"20230131">>
    /\ qArgs.pattern = NotGiven
    /\ {r.StudyDate : r \in qResult.rows} = {"20230115"}

\* C24: a search with targets and a pattern does not fail and returns exactly
\* the series that meet the date options and in which the pattern matches one
\* of the target columns, a column holding no value matching nothing.
C24_PatternFilter ==
    (qResult # <<>> /\ qArgs.pattern # NotGiven /\ qArgs.targets # NotGiven)
        => /\ qResult.exc = ""
           /\ qResult.rows = QueryRows(series, qArgs)

\* ------------------------------------------------------- the transmission
\* The files indexed into the catalog `send` reads: two of series S1, one of
\* series S2, as (SeriesInstanceUID, SOPInstanceUID, file_path).
SendFiles ==
    <<<<"S1", "I1", "/archive/a/1">>, <<"S1", "I2", "/archive/a/2">>,
      <<"S2", "I3", "/archive/b/1">>>>

\* The catalog after the first n of them were indexed.
RECURSIVE SendCatalog(_, _)
SendCatalog(cat, k) ==
    IF k = 0 THEN cat
    ELSE InsertDicom(SendCatalog(cat, k - 1),
                     FileMetadata(FullDs(SendFiles[k][1], SendFiles[k][2], "d1"),
                                  SendFiles[k][3]))

\* ds.SOPClassUID of a file that can be read.
SopClassOf(path) == IF path = "/archive/a/2" THEN "SecondaryCapture" ELSE "CTImage"

\* The rows of a selection CSV: the header the search writes and one with the
\* SeriesInstanceUID column first, and rows under either.
QueryHeader ==
    <<"StudyDescription", "SeriesDescription", "PatientName", "PatientID", "StudyDate",
      "SeriesInstanceUID">>
UidFirstHeader ==
    <<"SeriesInstanceUID", "StudyDescription", "SeriesDescription", "PatientName",
      "PatientID", "StudyDate">>
QueryRow(uid) == <<"CT", "d1", "DOE^J", "P1", "20230115", uid>>
UidFirstRow(uid) == <<uid, "CT", "d1", "DOE^J", "P1", "20230115">>

\* The selections given to `send`: a file named with --input, or stdin.
SendInputs ==
    {[source |-> "file", rows |-> r] : r \in
        {<<>>,
         <<QueryHeader>>,
         <<QueryHeader, QueryRow("S1")>>,
         <<QueryHeader, QueryRow("S2"), QueryRow("S1")>>,
         <<QueryHeader, QueryRow("S1"), <<>>, QueryRow("S9")>>,
         <<QueryRow("S1"), QueryRow("S2")>>,
         <<UidFirstHeader, UidFirstRow("S1")>>,
         <<<<"SeriesInstanceUID">>, <<"S1">>>>}}
    \cup
    {[source |-> "stdin", rows |-> r] : r \in
        {<<>>, <<QueryHeader, QueryRow("S1"), QueryRow("S2")>>, <<QueryRow("S1")>>}}

\* for row in reader: if row: series_uids.append(row[5])
RECURSIVE SixthColumn(_)
SixthColumn(rows) ==
    IF rows = <<>> THEN [exc |-> "", uids |-> <<>>]
    ELSE LET rest == SixthColumn(Tail(rows)) IN
         IF Head(rows) = <<>> THEN rest
         ELSE IF Len(Head(rows)) < 6 THEN [exc |-> "IndexError", uids |-> <<>>]
         ELSE IF rest.exc # "" THEN rest
         ELSE [exc |-> "", uids |-> <<Head(rows)[6]>> \o rest.uids]

\* The reading of the selection: from a file the first row is left out when it
\* holds 'SeriesInstanceUID', from stdin it is always left out; the values are
\* taken from the 6th column.
SenderSelection(input) ==
    IF input.rows = <<>> THEN [exc |-> "", uids |-> <<>>]
    ELSE IF input.source = "file"
            /\ \A c \in 1..Len(input.rows[1]) : input.rows[1][c] # "SeriesInstanceUID"
    THEN IF Len(input.rows[1]) < 6 THEN [exc |-> "IndexError", uids |-> <<>>]
         ELSE SixthColumn(input.rows)
    ELSE SixthColumn(Tail(input.rows))

\* SELECT i.file_path FROM instances i JOIN series s ON i.series_id = s.id
\* WHERE s.SeriesInstanceUID = ? : the paths, in the order of the instances' ids.
RECURSIVE PathsById(_)
PathsById(insts) ==
    IF insts = {} THEN <<>>
    ELSE LET last == CHOOSE i \in insts : \A j \in insts : j.id <= i.id
         IN  Append(PathsById(insts \ {last}), last.file_path)

InstancePaths(uid) ==
    PathsById({i \in instances : \E s \in series :
                    s.id = i.series_id /\ s.SeriesInstanceUID = uid})

\* A plausible bug: a default context is requested when no class was found.
SopClasses_Default(uids, bad) == {"CTImage"}

\* sop_classes: the SOPClassUID of the first file (LIMIT 1) of every selected
\* series that has one and whose file can be read.
SopClasses(uids, bad) ==
    {SopClassOf(InstancePaths(uids[k])[1]) :
        k \in {n \in 1..Len(uids) : /\ InstancePaths(uids[n]) # <<>>
                                     /\ InstancePaths(uids[n])[1] \notin bad}}

SendEvent(op, arg, result) == [op |-> op, arg |-> arg, result |-> result]

\* send_dicoms up to ae.associate: the selection is read, the presentation
\* contexts are built from one file of each series, the association requested.
SendDicoms(input) ==
    /\ sendPc = "cli"
    /\ sendInput' = input
    /\ LET read == SenderSelection(input)
           classes == SopClasses(read.uids, unreadable)
       IN  /\ sendExc' = read.exc
           /\ seriesUids' = read.uids
           /\ IF read.exc # "" THEN sendPc' = "raised" /\ UNCHANGED <<sopClasses, sendLog>>
              ELSE IF read.uids = <<>>
              THEN sendPc' = "no_series" /\ UNCHANGED <<sopClasses, sendLog>>
              ELSE /\ sopClasses' = classes
                   /\ IF classes = {}
                      THEN sendPc' = "no_sop_classes" /\ UNCHANGED sendLog
                      ELSE /\ sendPc' = "associating"
                           /\ sendLog' = Append(sendLog, SendEvent("associate", "", ""))
    /\ UNCHANGED <<catalogVars, callVars, scanVars, pacsVars, dlVars, rxVars, statusVars,
                   queryVars, unreadable, si, filePaths, fi>>

\* `if assoc.is_established`, or "Association rejected, aborted or never connected".
SendAssociate(established) ==
    /\ sendPc = "associating"
    /\ sendPc' = IF established THEN "sending" ELSE "rejected"
    /\ UNCHANGED <<catalogVars, callVars, scanVars, pacsVars, dlVars, rxVars, statusVars,
                   queryVars, sendInput, sendExc, seriesUids, sopClasses, unreadable, si,
                   filePaths, fi, sendLog>>

\* The outer loop goes to the next series and reads its file_paths.
FetchSeries ==
    /\ sendPc = "sending"
    /\ fi >= Len(filePaths)
    /\ si < Len(seriesUids)
    /\ si' = si + 1
    /\ filePaths' = InstancePaths(seriesUids[si + 1])
    /\ fi' = 0
    /\ UNCHANGED <<catalogVars, callVars, scanVars, pacsVars, dlVars, rxVars, statusVars,
                   queryVars, sendPc, sendInput, sendExc, seriesUids, sopClasses, unreadable,
                   sendLog>>

\* What send_c_store may come back with for a file that was read and has an
\* accepted context: a status, no status, or an exception.
PushOutcomes == {"0x0000", "0xa700", "no_status", "exception"}

\* What is printed for the file: "Error sending" when dcmread raises or when
\* no context was requested for its class, else the outcome of send_c_store.
PushResult(path, outcome) ==
    IF path \in unreadable THEN "read_error"
    ELSE IF SopClassOf(path) \notin sopClasses THEN "no_context"
    ELSE outcome

\* A plausible bug: a failed push leaves the loop over the files of the series.
AfterPush_StopOnFailure(position, result) ==
    IF result = "0x0000" THEN position + 1 ELSE Len(filePaths)

\* The inner loop goes on to the next file, whatever the result.
AfterPush(position, result) == position + 1

\* One pass of the inner loop: the file is read and pushed, the result printed.
SendFile(outcome) ==
    /\ sendPc = "sending"
    /\ fi < Len(filePaths)
    /\ LET path == filePaths[fi + 1]
           result == PushResult(path, outcome)
       IN  /\ sendLog' = Append(sendLog, SendEvent("file", path, result))
           /\ fi' = AfterPush(fi, result)
    /\ UNCHANGED <<catalogVars, callVars, scanVars, pacsVars, dlVars, rxVars, statusVars,
                   queryVars, sendPc, sendInput, sendExc, seriesUids, sopClasses, unreadable,
                   si, filePaths>>

\* assoc.release() after the last series.
SendRelease ==
    /\ sendPc = "sending"
    /\ fi >= Len(filePaths)
    /\ si >= Len(seriesUids)
    /\ sendLog' = Append(sendLog, SendEvent("release", "", ""))
    /\ sendPc' = "released"
    /\ UNCHANGED <<catalogVars, callVars, scanVars, pacsVars, dlVars, rxVars, statusVars,
                   queryVars, sendInput, sendExc, seriesUids, sopClasses, unreadable, si,
                   filePaths, fi>>

InitSend ==
    /\ tablesExist = TRUE
    /\ \E n \in 2..Len(SendFiles) :
        LET cat == SendCatalog([series |-> {}, instances |-> {}], n)
        IN  series = cat.series /\ instances = cat.instances
    /\ NoCalls
    /\ ScanIdle
    /\ PacsIdle
    /\ DownloadIdle
    /\ RxIdle
    /\ StatusIdle
    /\ QueryIdle
    /\ sendPc = "cli"
    /\ sendInput = <<>>
    /\ sendExc = ""
    /\ seriesUids = <<>>
    /\ sopClasses = {}
    /\ unreadable \in SUBSET {SendFiles[k][3] : k \in 1..Len(SendFiles)}
    /\ si = 0
    /\ filePaths = <<>>
    /\ fi = 0
    /\ sendLog = <<>>

NextSend ==
    \/ \E input \in SendInputs : SendDicoms(input)
    \/ \E established \in BOOLEAN : SendAssociate(established)
    \/ FetchSeries
    \/ \E outcome \in PushOutcomes : SendFile(outcome)
    \/ SendRelease

SpecSend == InitSend /\ [][NextSend]_vars

\* The column of the selection's header that is named SeriesInstanceUID.
NamedColumn(rows) ==
    CHOOSE c \in 1..Len(rows[1]) : rows[1][c] = "SeriesInstanceUID"

HasNamedHeader(rows) ==
    /\ rows # <<>>
    /\ \E c \in 1..Len(rows[1]) : rows[1][c] = "SeriesInstanceUID"

\* The values the rows under the header hold in the named column.
NamedValues(rows) ==
    {rows[k][NamedColumn(rows)] : k \in {n \in 2..Len(rows) : rows[n] # <<>>}}

\* C22: a selection whose header names a SeriesInstanceUID column is read by
\* that name for the transmission: wherever the column stands, the reading does
\* not fail and the series taken are exactly the values under that column.
C22_ResolvedByHeaderName ==
    (sendPc # "cli" /\ HasNamedHeader(sendInput.rows))
        => /\ sendExc = ""
           /\ {seriesUids[k] : k \in 1..Len(seriesUids)} = NamedValues(sendInput.rows)

\* The files of the selected series, series in selection order.
RECURSIVE PushPlan(_)
PushPlan(uids) ==
    IF uids = <<>> THEN <<>>
    ELSE InstancePaths(Head(uids)) \o PushPlan(Tail(uids))

IsFileRecord(e) == e.op = "file"

FileRecords == SelectSeq(sendLog, IsFileRecord)

\* C25: over an established association the files pushed are those of the
\* selected series in selection order, each with one recorded result; while the
\* loop runs the records are a prefix of that plan, and at the release they are
\* the whole plan, whatever the results of the earlier files.
C25_EveryFileInOrder ==
    sendPc \in {"sending", "released"}
        => /\ Len(FileRecords) <= Len(PushPlan(seriesUids))
           /\ \A k \in 1..Len(FileRecords) :
                /\ FileRecords[k].arg = PushPlan(seriesUids)[k]
                /\ FileRecords[k].result
                     \in PushOutcomes \cup {"read_error", "no_context"}
           /\ sendPc = "released" => Len(FileRecords) = Len(PushPlan(seriesUids))

\* A transmission released after a file that failed and a later one that was stored.
C25_Witness ==
    /\ sendPc = "released"
    /\ \E j, k \in 1..Len(FileRecords) :
        /\ j < k
        /\ FileRecords[j].result # "0x0000"
        /\ FileRecords[k].result = "0x0000"

\* No SOP class can be found: every selected series has no instance in the
\* catalog or its sampled file cannot be read.
NoClassDeterminable ==
    \A k \in 1..Len(seriesUids) :
        \/ InstancePaths(seriesUids[k]) = <<>>
        \/ InstancePaths(seriesUids[k])[1] \in unreadable

\* C26: when no SOP class can be determined from the sampled files, the
\* transmission ends before any association is requested and no file is pushed.
C26_AbortWithoutClasses ==
    (sendPc \notin {"cli", "raised"} /\ NoClassDeterminable)
        => /\ sendPc \in {"no_series", "no_sop_classes"}
           /\ sendLog = <<>>

\* An abort on a selection with a series that has files, none sampled readable.
C26_Witness ==
    /\ sendPc = "no_sop_classes"
    /\ sendLog = <<>>
    /\ \E k \in 1..Len(seriesUids) :
        /\ InstancePaths(seriesUids[k]) # <<>>
        /\ InstancePaths(seriesUids[k])[1] \in unreadable

====
